---- MODULE Spec2Model ----
(***************************************************************************)
(* A model of the size analyzer's reconciliation engine (CSVParser and     *)
(* DataProcessor) and of the version ordering shared with the dashboard.   *)
(*                                                                         *)
(* JavaScript strings are sequences of one-character strings, so that the  *)
(* regular expressions, split() and parseInt() of the source are computed  *)
(* character by character.  A JavaScript Map is a sequence of              *)
(* [key, value] records in insertion order.  An optional property is a set *)
(* with at most one element ({} when the property is absent).              *)
(***************************************************************************)
EXTENDS Integers, Sequences, FiniteSets, TLC

VARIABLES
    \* comparator (DataProcessor.processDataByMetric)
    data1,            \* rows of the baseline snapshot
    data2,            \* rows of the compare snapshot
    changeThreshold,  \* threshold of the last run
    comparisons,      \* output of the last run
    mergedData1,      \* detectFileMoves' merged baseline map of the last run
    mergedData2,      \* detectFileMoves' merged compare map of the last run
    matchedMoves,     \* detectFileMoves' recorded moves of the last run
    previous,         \* the run before the last one: its inputs and output
    cmpPc,            \* "loaded", "compared" or "recompared"
    \* path normalizer (DataProcessor.normalizeFilePath)
    filePath,         \* the path given
    normalized,       \* normalizeFilePath(filePath)
    renormalized,     \* normalizeFilePath(normalized)
    normSteps,        \* number of normalizations applied
    \* version ordering (compareVersions)
    v1, v2,           \* the two version strings
    result12,         \* DataProcessor.compareVersions(v1, v2)
    result21,         \* DataProcessor.compareVersions(v2, v1)
    dash12,           \* DefoldDashboard.compareVersions(v1, v2)
    verDone,          \* whether the comparisons were made
    \* the analysis index, the server's files and CSVParser.csvCache
    analysisIndex,    \* analysisIndex.platforms: platform -> versions array
    server,           \* url -> text of the CSV file, or FetchFailure
    csvCache,         \* CSVParser.csvCache: url -> parsed rows
    \* timeline (DataProcessor.getFileTimeline)
    tlArgs,           \* the arguments of the call
    tlVersionsInRange, \* versionsInRange
    tlNext,           \* position of the for loop in versionsInRange
    timeline,         \* the points pushed so far
    tlFilenameColumn, \* the loop's filenameColumn
    tlPc,             \* "called", "loading", "returned" or "rejected"
    \* header row (getMetricsFromHeaders, getFilenameColumn)
    hdrHeaders,       \* the header names given
    hdrMetrics,       \* getMetricsFromHeaders(hdrHeaders)
    hdrFilenameColumn, \* getFilenameColumn(hdrHeaders), optional
    hdrDone,          \* whether the two calls were made
    \* parser (CSVParser.parseCSV)
    csvText,          \* the text given
    csvRows,          \* parseCSV(csvText)
    csvDone,          \* whether the text was parsed
    \* threshold slider (elements.thresholdSlider)
    thresholdSlider,  \* its min, max and value
    histogram,        \* the chart data of the last render, optional
    \* the application (DefoldSizeAnalyzer) and the page it drives
    app,              \* the object's fields, the selects, timers and loads
    \* summary (DataProcessor.generateSummary)
    sumComparisons,   \* the comparison list given
    summary,          \* generateSummary(sumComparisons)
    sumDone,          \* whether the summary was generated
    \* the dashboard (DefoldDashboard) and its page
    dashCache,        \* DefoldDashboard.csvCache: file name -> rows
    dashCharts,       \* per container: the chart drawn, optional
    dashConfigs,      \* DefoldDashboard.chartConfigs
    dashStatus,       \* "loading", "loaded" or "error"
    dashClick,        \* the last click on a data point, optional
    dashOpened,       \* what the last click opened
    \* the slider's range on a long list (calculateThresholdRange)
    rngComparisons,   \* the comparison list given
    rngRange,         \* calculateThresholdRange(rngComparisons)
    rngSlider,        \* the slider after updateThresholdSlider
    rngDone           \* whether the range was calculated

cmpVars  == <<data1, data2, changeThreshold, comparisons, mergedData1,
              mergedData2, matchedMoves, previous, cmpPc>>
normVars == <<filePath, normalized, renormalized, normSteps>>
verVars  == <<v1, v2, result12, result21, dash12, verDone>>
envVars  == <<analysisIndex, server, csvCache>>
tlVars   == <<tlArgs, tlVersionsInRange, tlNext, timeline, tlFilenameColumn,
              tlPc>>
hdrVars  == <<hdrHeaders, hdrMetrics, hdrFilenameColumn, hdrDone>>
csvVars  == <<csvText, csvRows, csvDone>>
thrVars  == <<thresholdSlider, histogram>>
uiVars   == <<app>>
sumVars  == <<sumComparisons, summary, sumDone>>
dashVars == <<dashCache, dashCharts, dashConfigs, dashStatus, dashClick,
              dashOpened>>
rngVars  == <<rngComparisons, rngRange, rngSlider, rngDone>>
moreVars == <<dashVars, rngVars>>
vars     == <<cmpVars, normVars, verVars, envVars, tlVars, hdrVars, csvVars,
              thrVars, uiVars,
                   sumVars,
                   moreVars>>

----------------------------------------------------------------------------
(* Bounds *)

MaxRows1 == 2        \* rows in the baseline snapshot
MaxRows2 == 2        \* rows in the compare snapshot
MaxPathLen == 5      \* characters of a path given to the normalizer
MaxComponents == 3   \* components of a generated version string
MaxIndexVersions == 3  \* versions listed for a platform in the index
MaxTimelineRows == 1   \* data lines of a CSV file read for a timeline
MaxHeaders == 3      \* names in a header row
MaxTextLen == 7      \* characters of a text given to the parser
MaxSliderRows1 == 2  \* rows of the baseline snapshot under the slider
MaxSliderRows2 == 1  \* rows of the compare snapshot under the slider
MaxSliderValue == 22 \* largest value the slider is moved to
MinUiVersions == 2   \* versions of the first platform of the page
MaxUiVersions == 3   \* versions of the second platform of the page
MaxUserEvents == 1   \* changes the user makes to the selects
MaxRequests == 2     \* compareVersions calls waiting when an event is taken
MaxFailures == 1     \* fetches of CSV files that fail
MaxSummaryEntries == 3  \* entries of a list given to generateSummary
MaxSummaryDifference == 2  \* largest difference of such an entry

----------------------------------------------------------------------------
(* Strings *)

StartsWith(s, prefix) ==
    Len(s) >= Len(prefix) /\ SubSeq(s, 1, Len(prefix)) = prefix

Drop(s, n) == SubSeq(s, n + 1, Len(s))

Abs(n) == IF n < 0 THEN -n ELSE n

SeqsUpTo(S, n) == UNION {[1..k -> S] : k \in 0..n}

DigitChars == {"0", "1", "2", "3", "4", "5", "6", "7", "8", "9"}

DigitValue(c) ==
    CASE c = "0" -> 0 [] c = "1" -> 1 [] c = "2" -> 2 [] c = "3" -> 3
      [] c = "4" -> 4 [] c = "5" -> 5 [] c = "6" -> 6 [] c = "7" -> 7
      [] c = "8" -> 8 [] c = "9" -> 9

RECURSIVE DecimalValue(_)
DecimalValue(ds) ==
    IF ds = <<>> THEN 0
    ELSE DecimalValue(SubSeq(ds, 1, Len(ds) - 1)) * 10 + DigitValue(ds[Len(ds)])

\* The longest prefix of s made of decimal digits.
RECURSIVE DigitPrefix(_)
DigitPrefix(s) ==
    IF s = <<>> \/ s[1] \notin DigitChars THEN <<>>
    ELSE <<s[1]>> \o DigitPrefix(Tail(s))

\* String.prototype.split(sep) for a one-character separator.
RECURSIVE Split(_, _)
Split(s, sep) ==
    IF \A i \in 1..Len(s) : s[i] # sep THEN <<s>>
    ELSE LET i == CHOOSE j \in 1..Len(s) :
                      s[j] = sep /\ \A k \in 1..(j - 1) : s[k] # sep
         IN  <<SubSeq(s, 1, i - 1)>> \o Split(Drop(s, i), sep)

\* Array.prototype.join(sep).
RECURSIVE Join(_, _)
Join(parts, sep) ==
    IF parts = <<>> THEN <<>>
    ELSE IF Len(parts) = 1 THEN parts[1]
    ELSE parts[1] \o <<sep>> \o Join(Tail(parts), sep)

----------------------------------------------------------------------------
(* JavaScript numbers read from strings.  A parsed number is a record      *)
(* [isNaN, value]; value is 0 when isNaN.                                   *)

NaN == [isNaN |-> TRUE, value |-> 0]

Num(n) == [isNaN |-> FALSE, value |-> n]

\* x || 0 for a number x: NaN and 0 are falsy.
OrZero(x) == IF x.isNaN THEN 0 ELSE x.value

\* Number(s): the empty string is 0, a string of decimal digits its value,
\* anything else NaN.
Number(s) ==
    IF s = <<>> THEN Num(0)
    ELSE IF \A i \in 1..Len(s) : s[i] \in DigitChars THEN Num(DecimalValue(s))
    ELSE NaN

\* parseInt(cell) for an optional cell of a row (a set of at most one string):
\* an absent cell is undefined and parses to NaN; otherwise an optional sign
\* and the longest prefix of decimal digits, NaN when there is no digit.
parseInt(cell) ==
    IF cell = {} THEN NaN
    ELSE LET s        == CHOOSE x \in cell : TRUE
             negative == s # <<>> /\ s[1] = "-"
             signed   == s # <<>> /\ s[1] \in {"-", "+"}
             digits   == DigitPrefix(IF signed THEN Tail(s) ELSE s)
         IN  IF digits = <<>> THEN NaN
             ELSE Num(IF negative THEN -DecimalValue(digits)
                      ELSE DecimalValue(digits))

----------------------------------------------------------------------------
(* DataProcessor.normalizeFilePath *)

\* replace(/^(\.\.\/)+/, '')
RECURSIVE StripParentPrefixes(_)
StripParentPrefixes(s) ==
    IF StartsWith(s, <<".", ".", "/">>) THEN StripParentPrefixes(Drop(s, 3))
    ELSE s

\* replace(/^\.\//, '')
StripCurrentPrefix(s) ==
    IF StartsWith(s, <<".", "/">>) THEN Drop(s, 2) ELSE s

\* replace(/^\/+/, '')
RECURSIVE StripLeadingSlashes(_)
StripLeadingSlashes(s) ==
    IF StartsWith(s, <<"/">>) THEN StripLeadingSlashes(Drop(s, 1)) ELSE s

normalizeFilePath(p) ==
    IF p = <<>> THEN p
    ELSE StripLeadingSlashes(StripCurrentPrefix(StripParentPrefixes(p)))

\* parts[parts.length - 1] of filePath.split('/')
getBasename(p) ==
    LET parts == Split(p, "/") IN parts[Len(parts)]

\* parts.slice(0, -1).join('/') || '/'
getDirectoryPath(p) ==
    LET parts == Split(p, "/")
        dir   == Join(SubSeq(parts, 1, Len(parts) - 1), "/")
    IN  IF dir = <<>> THEN <<"/">> ELSE dir

----------------------------------------------------------------------------
(* Version ordering *)

\* version.split('.').map(Number)
parseVersion(version) ==
    LET parts == Split(version, ".")
    IN  [i \in 1..Len(parts) |-> Number(parts[i])]

\* a[i] || 0, where a[i] is undefined past the end of a
ComponentOrZero(a, i) == IF i > Len(a) THEN 0 ELSE OrZero(a[i])

Max(m, n) == IF m >= n THEN m ELSE n

\* The for loop of compareVersions from index i (1-based) on.
RECURSIVE CompareFrom(_, _, _)
CompareFrom(a, b, i) ==
    IF i > Max(Len(a), Len(b)) THEN 0
    ELSE LET numA == ComponentOrZero(a, i)
             numB == ComponentOrZero(b, i)
         IN  IF numA # numB THEN numA - numB ELSE CompareFrom(a, b, i + 1)

Min(m, n) == IF m <= n THEN m ELSE n

\* compareVersions with the loop bounded by Math.min(a.length, b.length).
compareVersionsCommonLength(ver1, ver2) ==
    LET a == parseVersion(ver1)
        b == parseVersion(ver2)
        n == Min(Len(a), Len(b))
    IN  CompareFrom(SubSeq(a, 1, n), SubSeq(b, 1, n), 1)

\* DataProcessor.compareVersions
compareVersions(ver1, ver2) ==
    CompareFrom(parseVersion(ver1), parseVersion(ver2), 1)

\* DefoldDashboard.compareVersions
\* (v1.split('.').map(Number) is written out in place there)
DashboardCompareVersions(ver1, ver2) ==
    LET a == [i \in 1..Len(Split(ver1, ".")) |-> Number(Split(ver1, ".")[i])]
        b == [i \in 1..Len(Split(ver2, ".")) |-> Number(Split(ver2, ".")[i])]
    IN  CompareFrom(a, b, 1)


----------------------------------------------------------------------------
(* JavaScript Map: a sequence of [key, value] records in insertion order.  *)

MapKeys(m) == [i \in 1..Len(m) |-> m[i].key]

MapHas(m, k) == \E i \in 1..Len(m) : m[i].key = k

\* Map.get(k) as an optional value: {} when k is absent (undefined).
MapGet(m, k) == {m[i].value : i \in {j \in 1..Len(m) : m[j].key = k}}

\* Map.set(k, v): an existing key keeps its place, a new key is appended.
MapSet(m, k, v) ==
    IF MapHas(m, k)
    THEN [i \in 1..Len(m) |-> IF m[i].key = k THEN [key |-> k, value |-> v]
                              ELSE m[i]]
    ELSE Append(m, [key |-> k, value |-> v])

\* Map.delete(k)
MapDelete(m, k) ==
    LET Keep(e) == e.key # k IN SelectSeq(m, Keep)

----------------------------------------------------------------------------
(* DataProcessor.detectFileMoves and its helpers *)

\* The default of sizesAreSimilar's tolerance parameter (0.1), as a fraction.
ToleranceNum == 1
ToleranceDen == 10

\* diff / average <= tolerance with average = (size1 + size2) / 2, in exact
\* arithmetic: a negative average makes the quotient negative (or -0), which
\* is <= tolerance; a zero average (size1 = -size2 # 0) makes it Infinity.
sizesAreSimilar(size1, size2) ==
    IF size1 = 0 /\ size2 = 0 THEN TRUE
    ELSE IF size1 = 0 \/ size2 = 0 THEN FALSE
    ELSE LET diff == Abs(size1 - size2)
             sum  == size1 + size2
         IN  IF sum > 0 THEN 2 * diff * ToleranceDen <= ToleranceNum * sum
             ELSE sum < 0

\* The entries of m whose key the other map lacks, in m's order.
OnlyIn(m, other) ==
    LET Alone(e) == ~MapHas(other, e.key) IN SelectSeq(m, Alone)

\* IsMoveCandidate without the comparison of the basenames.
IsMoveCandidateBySizeAlone(item1, item2) ==
    sizesAreSimilar(item1.value.size, item2.value.size)

\* The condition of the inner loop's if.
IsMoveCandidate(item1, item2) ==
    /\ getBasename(item1.key) = getBasename(item2.key)
    /\ sizesAreSimilar(item1.value.size, item2.value.size)

\* The inner loop: the first entry of onlyInData2 that matches item1, as a
\* sequence of at most one move.  The loop leaves onlyInData2 as it is.
MatchFor(item1, onlyInData2) ==
    LET hits == {j \in 1..Len(onlyInData2) :
                     IsMoveCandidate(item1, onlyInData2[j])}
    IN  IF hits = {} THEN <<>>
        ELSE LET j == CHOOSE h \in hits : \A g \in hits : h <= g
             IN  <<[oldKey   |-> item1.key,
                    newKey   |-> onlyInData2[j].key,
                    oldValue |-> item1.value,
                    newValue |-> onlyInData2[j].value,
                    basename |-> getBasename(item1.key)]>>

\* The outer loop over onlyInData1.
RECURSIVE MatchMoves(_, _)
MatchMoves(onlyInData1, onlyInData2) ==
    IF onlyInData1 = <<>> THEN <<>>
    ELSE MatchFor(Head(onlyInData1), onlyInData2)
             \o MatchMoves(Tail(onlyInData1), onlyInData2)

\* `${basename} (moved from ${dir(oldKey)} to ${dir(newKey)})`; the fixed
\* texts of the template are one element each.
MoveDisplayName(basename, oldKey, newKey) ==
    basename \o <<" (moved from ">> \o getDirectoryPath(oldKey)
             \o <<" to ">> \o getDirectoryPath(newKey) \o <<")">>

MoveDetails(move) ==
    [oldPath     |-> move.oldValue.originalPath,
     newPath     |-> move.newValue.originalPath,
     displayName |-> MoveDisplayName(move.basename, move.oldKey, move.newKey)]

\* The second loop: the merged maps after the moves ms have been processed.
RECURSIVE ProcessMoves(_, _, _)
ProcessMoves(ms, m1, m2) ==
    IF ms = <<>> THEN [mergedData1 |-> m1, mergedData2 |-> m2]
    ELSE LET move         == Head(ms)
             canonicalKey == move.newKey
             details      == MoveDetails(move)
         IN  ProcessMoves(
                 Tail(ms),
                 MapSet(MapDelete(m1, move.oldKey), canonicalKey,
                        [move.oldValue EXCEPT !.moveInfo = {details}]),
                 MapSet(MapDelete(m2, move.newKey), canonicalKey,
                        [move.newValue EXCEPT !.moveInfo = {details}]))

detectFileMoves(data1Map, data2Map) ==
    LET onlyInData1 == OnlyIn(data1Map, data2Map)
        onlyInData2 == OnlyIn(data2Map, data1Map)
        moves       == MatchMoves(onlyInData1, onlyInData2)
        merged      == ProcessMoves(moves, data1Map, data2Map)
    IN  [mergedData1 |-> merged.mergedData1,
         mergedData2 |-> merged.mergedData2,
         moveInfo    |-> moves]


----------------------------------------------------------------------------
(* DataProcessor.processDataByMetric *)

\* row[column] as an optional string: {} when the row has no such property.
Cell(row, column) == IF column \in DOMAIN row THEN {row[column]} ELSE {}

\* One callback of data.forEach: the row's entry is set in the map.
RowEntry(row, metricType, filenameColumn) ==
    LET compileUnit == normalizeFilePath(row[filenameColumn])
        metricValue == OrZero(parseInt(Cell(row, metricType)))
    IN  [size         |-> metricValue,
         compileUnit  |-> compileUnit,
         originalPath |-> row[filenameColumn],
         moveInfo     |-> {}]

\* data.forEach(row => dataMap.set(compileUnit, {...})) from an empty Map.
RECURSIVE DataMap(_, _, _)
DataMap(data, metricType, filenameColumn) ==
    IF data = <<>> THEN <<>>
    ELSE LET row   == data[Len(data)]
             entry == RowEntry(row, metricType, filenameColumn)
         IN  MapSet(DataMap(SubSeq(data, 1, Len(data) - 1), metricType,
                            filenameColumn),
                    entry.compileUnit, entry)

\* AllKeys as an array instead of a Set: a key of both maps is kept twice.
AllKeysAsArray(m1, m2) == MapKeys(m1) \o MapKeys(m2)

\* new Set([...mergedData1.keys(), ...mergedData2.keys()]) in insertion order
AllKeys(m1, m2) ==
    LET New(k) == ~MapHas(m1, k) IN MapKeys(m1) \o SelectSeq(MapKeys(m2), New)

\* ChangeType with >= in place of >.
ChangeTypeFromThreshold(difference, threshold) ==
    IF Abs(difference) >= threshold
    THEN (IF difference > 0 THEN "increased" ELSE "decreased")
    ELSE "unchanged"

\* changeType of a difference under a threshold
ChangeType(difference, threshold) ==
    IF Abs(difference) > threshold
    THEN (IF difference > 0 THEN "increased" ELSE "decreased")
    ELSE "unchanged"

\* percentChange as an exact fraction num / den
PercentChange(size1, size2) ==
    IF size1 > 0 THEN [num |-> (size2 - size1) * 100, den |-> size1]
    ELSE IF size2 > 0 THEN [num |-> 100, den |-> 1]
    ELSE [num |-> 0, den |-> 1]

\* The object pushed to comparisons.
ComparisonEntry(compileUnit, size1, size2, difference, moveInfo, metricType, threshold) ==
    [compileUnit   |-> compileUnit,
     size1         |-> size1,
     size2         |-> size2,
     difference    |-> difference,
     percentChange |-> PercentChange(size1, size2),
     changeType    |-> ChangeType(difference, threshold),
     metricType    |-> metricType,
     isMoved       |-> {TRUE : x \in moveInfo},
     moveInfo      |-> moveInfo,
     displayName   |-> {x.displayName : x \in moveInfo}]

\* item ? item.size : 0 for an optional map value
SizeOrZero(item) == IF item = {} THEN 0 ELSE (CHOOSE x \in item : TRUE).size

\* item1?.moveInfo || item2?.moveInfo
MoveInfoOf(item1, item2) ==
    LET info1 == UNION {x.moveInfo : x \in item1}
        info2 == UNION {x.moveInfo : x \in item2}
    IN  IF info1 # {} THEN info1 ELSE info2

\* ComparisonFor with the difference taken as size1 - size2.
ComparisonForReversed(compileUnit, m1, m2, metricType, threshold) ==
    LET item1 == MapGet(m1, compileUnit)
        item2 == MapGet(m2, compileUnit)
    IN  ComparisonEntry(compileUnit, SizeOrZero(item1), SizeOrZero(item2),
                        SizeOrZero(item1) - SizeOrZero(item2),
                        MoveInfoOf(item1, item2), metricType, threshold)

\* The callback of allKeys.forEach: the comparison pushed for one key.
ComparisonFor(compileUnit, m1, m2, metricType, threshold) ==
    LET item1 == MapGet(m1, compileUnit)
        item2 == MapGet(m2, compileUnit)
    IN  ComparisonEntry(compileUnit, SizeOrZero(item1), SizeOrZero(item2),
                        SizeOrZero(item2) - SizeOrZero(item1),
                        MoveInfoOf(item1, item2), metricType, threshold)

\* SortByAbsDifference with (a, b) => b.difference - a.difference.
RECURSIVE SortBySignedDifference(_)
SortBySignedDifference(cs) ==
    IF cs = <<>> THEN <<>>
    ELSE LET front == SortBySignedDifference(SubSeq(cs, 1, Len(cs) - 1))
             e     == cs[Len(cs)]
             n     == Cardinality({i \in 1..Len(front) :
                          front[i].difference >= e.difference})
         IN  SubSeq(front, 1, n) \o <<e>> \o SubSeq(front, n + 1, Len(front))

\* comparisons.sort((a, b) => Math.abs(b.difference) - Math.abs(a.difference)):
\* a stable sort, so entries of equal |difference| keep their order.
RECURSIVE SortByAbsDifference(_)
SortByAbsDifference(cs) ==
    IF cs = <<>> THEN <<>>
    ELSE LET front == SortByAbsDifference(SubSeq(cs, 1, Len(cs) - 1))
             e     == cs[Len(cs)]
             n     == Cardinality({i \in 1..Len(front) :
                          Abs(front[i].difference) >= Abs(e.difference)})
         IN  SubSeq(front, 1, n) \o <<e>> \o SubSeq(front, n + 1, Len(front))

\* The move detection a run makes on the two snapshots.
MoveDetection(d1, d2, metricType, filenameColumn) ==
    detectFileMoves(DataMap(d1, metricType, filenameColumn),
                    DataMap(d2, metricType, filenameColumn))

processDataByMetric(d1, d2, metricType, threshold, filenameColumn) ==
    LET moveDetection == MoveDetection(d1, d2, metricType, filenameColumn)
        m1            == moveDetection.mergedData1
        m2            == moveDetection.mergedData2
        allKeys       == AllKeys(m1, m2)
    IN  SortByAbsDifference(
            [i \in 1..Len(allKeys) |->
                ComparisonFor(allKeys[i], m1, m2, metricType, threshold)])


----------------------------------------------------------------------------
(* Inputs *)

\* Identity cells: three keys of basename "x" (one of them at the top level,
\* written with a prefix the normalizer strips) and one key of another
\* basename.
Paths ==
    {<<"a", "/", "x">>, <<"b", "/", "x">>, <<".", "/", "x">>,
     <<"a", "/", "y">>}

\* Metric cells: 19 and 21 are similar (at the tolerance exactly), 21 and 23
\* are similar, 19 and 23 are not; "-" is not a number.
CellTexts == {<<"1", "9">>, <<"2", "1">>, <<"2", "3">>, <<"-">>}

FilenameColumn == "compileunits"
Metric == "vmsize"

Rows ==
    {[compileunits |-> p, vmsize |-> c] : p \in Paths, c \in CellTexts}

\* Differences of the cells above are 0, 2, 4, 19, 21 and 23 in size.
Thresholds == {2, 20}

\* Characters of the paths given to the normalizer alone.
PathChars == {".", "/", "a"}

\* Version strings: up to MaxComponents components, and the named examples.
ComponentTexts == {<<"0">>, <<"2">>, <<"1", "0">>}

NamedVersions ==
    {<<"1", ".", "2", ".", "1", "6", "6">>, <<"1", ".", "1", "0", ".", "0">>,
     <<"1", ".", "2", ".", "0">>, <<"1", ".", "2">>,
     <<"2", ".", "0">>, <<"1", ".", "9", ".", "9">>}

Versions ==
    {Join(cs, ".") : cs \in SeqsUpTo(ComponentTexts, MaxComponents) \ {<<>>}}
        \cup NamedVersions

----------------------------------------------------------------------------
(* The comparator run on two loaded snapshots *)

CmpIdle ==
    /\ data1 = <<>> /\ data2 = <<>> /\ changeThreshold = 0
    /\ comparisons = <<>> /\ mergedData1 = <<>> /\ mergedData2 = <<>>
    /\ matchedMoves = <<>> /\ previous = <<>> /\ cmpPc = "idle"

NormIdle ==
    /\ filePath = <<>> /\ normalized = <<>> /\ renormalized = <<>>
    /\ normSteps = 0

VerIdle ==
    /\ v1 = <<>> /\ v2 = <<>> /\ result12 = 0 /\ result21 = 0 /\ dash12 = 0
    /\ verDone = FALSE

EnvIdle == analysisIndex = <<>> /\ server = <<>> /\ csvCache = <<>>

TlIdle ==
    /\ tlArgs = <<>> /\ tlVersionsInRange = <<>> /\ tlNext = 0
    /\ timeline = <<>> /\ tlFilenameColumn = <<>> /\ tlPc = "idle"

HdrIdle ==
    /\ hdrHeaders = <<>> /\ hdrMetrics = <<>> /\ hdrFilenameColumn = {}
    /\ hdrDone = FALSE

CsvIdle == csvText = <<>> /\ csvRows = <<>> /\ csvDone = FALSE

ThrIdle == thresholdSlider = <<>> /\ histogram = {}

UiIdle == app = <<>>

SumIdle == sumComparisons = <<>> /\ summary = <<>> /\ sumDone = FALSE

DashIdle ==
    /\ dashCache = <<>> /\ dashCharts = <<>> /\ dashConfigs = <<>>
    /\ dashStatus = "" /\ dashClick = {} /\ dashOpened = <<>>

RngIdle ==
    /\ rngComparisons = <<>> /\ rngRange = <<>> /\ rngSlider = <<>>
    /\ rngDone = FALSE

MoreIdle == DashIdle /\ RngIdle

CmpInit ==
    /\ data1 \in SeqsUpTo(Rows, MaxRows1)
    /\ data2 \in SeqsUpTo(Rows, MaxRows2)
    /\ changeThreshold = 0
    /\ comparisons = <<>> /\ mergedData1 = <<>> /\ mergedData2 = <<>>
    /\ matchedMoves = <<>> /\ previous = <<>> /\ cmpPc = "loaded"
    /\ NormIdle /\ VerIdle
    /\ EnvIdle /\ TlIdle /\ HdrIdle /\ CsvIdle
    /\ ThrIdle /\ UiIdle /\ SumIdle /\ MoreIdle

\* RunComparator with the rows taken off the arrays (shift()) as they are read.
RunComparatorDrainingRows(threshold) ==
    \E moveDetection \in {MoveDetection(data1, data2, Metric, FilenameColumn)} :
        /\ changeThreshold' = threshold
        /\ comparisons' = processDataByMetric(data1, data2, Metric, threshold,
                                              FilenameColumn)
        /\ mergedData1' = moveDetection.mergedData1
        /\ mergedData2' = moveDetection.mergedData2
        /\ matchedMoves' = moveDetection.moveInfo
        /\ data1' = <<>> /\ data2' = <<>>

\* One call of processDataByMetric: the output and, for observation, what
\* detectFileMoves returned to it.  The call reads the rows only.
RunComparator(threshold) ==
    \E moveDetection \in {MoveDetection(data1, data2, Metric, FilenameColumn)} :
        /\ changeThreshold' = threshold
        /\ comparisons' = processDataByMetric(data1, data2, Metric, threshold,
                                              FilenameColumn)
        /\ mergedData1' = moveDetection.mergedData1
        /\ mergedData2' = moveDetection.mergedData2
        /\ matchedMoves' = moveDetection.moveInfo
        /\ UNCHANGED <<data1, data2>>

\* The first run on the loaded snapshots.
Compare(threshold) ==
    /\ cmpPc = "loaded"
    /\ RunComparator(threshold)
    /\ cmpPc' = "compared"
    /\ UNCHANGED <<previous, normVars, verVars>>
    /\ UNCHANGED <<envVars, tlVars, hdrVars, csvVars, thrVars, uiVars,
                   sumVars,
                   moreVars>>

\* The same call made again on the same snapshots.
Recompare ==
    /\ cmpPc \in {"compared", "recompared"}
    /\ previous' = [data1 |-> data1, data2 |-> data2,
                    comparisons |-> comparisons]
    /\ RunComparator(changeThreshold)
    /\ cmpPc' = "recompared"
    /\ UNCHANGED <<normVars, verVars>>
    /\ UNCHANGED <<envVars, tlVars, hdrVars, csvVars, thrVars, uiVars,
                   sumVars,
                   moreVars>>

CmpNext ==
    \/ \E threshold \in Thresholds : Compare(threshold)
    \/ Recompare

SpecCmp == CmpInit /\ [][CmpNext]_vars

----------------------------------------------------------------------------
(* The path normalizer applied to a path, and again to its result *)

NormInit ==
    /\ filePath \in SeqsUpTo(PathChars, MaxPathLen)
    /\ normalized = <<>> /\ renormalized = <<>> /\ normSteps = 0
    /\ CmpIdle /\ VerIdle
    /\ EnvIdle /\ TlIdle /\ HdrIdle /\ CsvIdle
    /\ ThrIdle /\ UiIdle /\ SumIdle /\ MoreIdle

Normalize ==
    /\ normSteps = 0
    /\ normalized' = normalizeFilePath(filePath)
    /\ normSteps' = 1
    /\ UNCHANGED <<filePath, renormalized, cmpVars, verVars>>
    /\ UNCHANGED <<envVars, tlVars, hdrVars, csvVars, thrVars, uiVars,
                   sumVars,
                   moreVars>>

NormalizeAgain ==
    /\ normSteps = 1
    /\ renormalized' = normalizeFilePath(normalized)
    /\ normSteps' = 2
    /\ UNCHANGED <<filePath, normalized, cmpVars, verVars>>
    /\ UNCHANGED <<envVars, tlVars, hdrVars, csvVars, thrVars, uiVars,
                   sumVars,
                   moreVars>>

NormNext == Normalize \/ NormalizeAgain

SpecNorm == NormInit /\ [][NormNext]_vars

----------------------------------------------------------------------------
(* The version comparison applied to two versions, both ways *)

VerInit ==
    /\ v1 \in Versions /\ v2 \in Versions
    /\ result12 = 0 /\ result21 = 0 /\ dash12 = 0 /\ verDone = FALSE
    /\ CmpIdle /\ NormIdle
    /\ EnvIdle /\ TlIdle /\ HdrIdle /\ CsvIdle
    /\ ThrIdle /\ UiIdle /\ SumIdle /\ MoreIdle

CompareBothWays ==
    /\ ~verDone
    /\ result12' = compareVersions(v1, v2)
    /\ result21' = compareVersions(v2, v1)
    /\ dash12' = DashboardCompareVersions(v1, v2)
    /\ verDone' = TRUE
    /\ UNCHANGED <<v1, v2, cmpVars, normVars>>
    /\ UNCHANGED <<envVars, tlVars, hdrVars, csvVars, thrVars, uiVars,
                   sumVars,
                   moreVars>>

VerNext == CompareBothWays

SpecVer == VerInit /\ [][VerNext]_vars


----------------------------------------------------------------------------
(* CSVParser: header names, lines and rows.  A row (a JavaScript object)   *)
(* is a sequence of [key, value] records in property insertion order.      *)

WhitespaceChars == {" ", "\t", "\n", "\r"}

\* String.prototype.trim()
RECURSIVE TrimStart(_)
TrimStart(s) ==
    IF s # <<>> /\ s[1] \in WhitespaceChars THEN TrimStart(Tail(s)) ELSE s

RECURSIVE TrimEnd(_)
TrimEnd(s) ==
    IF s # <<>> /\ s[Len(s)] \in WhitespaceChars
    THEN TrimEnd(SubSeq(s, 1, Len(s) - 1)) ELSE s

Trim(s) == TrimEnd(TrimStart(s))

UpperChars ==
    <<"A", "B", "C", "D", "E", "F", "G", "H", "I", "J", "K", "L", "M",
      "N", "O", "P", "Q", "R", "S", "T", "U", "V", "W", "X", "Y", "Z">>

LowerChars ==
    <<"a", "b", "c", "d", "e", "f", "g", "h", "i", "j", "k", "l", "m",
      "n", "o", "p", "q", "r", "s", "t", "u", "v", "w", "x", "y", "z">>

\* String.prototype.toLowerCase()
toLowerCase(s) ==
    [i \in 1..Len(s) |->
        IF \E k \in 1..Len(UpperChars) : UpperChars[k] = s[i]
        THEN LowerChars[CHOOSE k \in 1..Len(UpperChars) : UpperChars[k] = s[i]]
        ELSE s[i]]

CompileunitsName ==
    <<"c", "o", "m", "p", "i", "l", "e", "u", "n", "i", "t", "s">>

FilenameName == <<"f", "i", "l", "e", "n", "a", "m", "e">>

VmsizeName == <<"v", "m", "s", "i", "z", "e">>

\* const filenameColumns = ['compileunits', 'filename']
filenameColumns == {CompileunitsName, FilenameName}

\* headers.map(h => h.trim())
TrimAll(headers) == [i \in 1..Len(headers) |-> Trim(headers[i])]

IsFilenameHeader(header) == toLowerCase(header) \in filenameColumns

\* CSVParser.getMetricsFromHeaders
getMetricsFromHeaders(headers) ==
    LET IsMetric(header) == ~IsFilenameHeader(header)
    IN  SelectSeq(TrimAll(headers), IsMetric)

\* getFilenameColumn returning the last matching header.
getFilenameColumnLastMatch(headers) ==
    LET trimmed == TrimAll(headers)
        named   == {i \in 1..Len(trimmed) : IsFilenameHeader(trimmed[i])}
    IN  IF named # {}
        THEN {trimmed[CHOOSE i \in named : \A j \in named : j <= i]}
        ELSE IF headers = <<>> THEN {} ELSE {headers[1]}

\* CSVParser.getFilenameColumn, as an optional string: find(...) || headers[0]
\* is undefined for an empty array, and an empty first header is returned as
\* it is.
getFilenameColumn(headers) ==
    LET trimmed == TrimAll(headers)
        named   == {i \in 1..Len(trimmed) : IsFilenameHeader(trimmed[i])}
    IN  IF named # {}
        THEN {trimmed[CHOOSE i \in named : \A j \in named : i <= j]}
        ELSE IF headers = <<>> THEN {} ELSE {headers[1]}

\* The for loop of parseCSVLine from character i (1-based) on.
RECURSIVE ParseCSVLineFrom(_, _, _, _, _)
ParseCSVLineFrom(line, i, result, current, inQuotes) ==
    IF i > Len(line) THEN Append(result, current)
    ELSE IF line[i] = "\""
         THEN ParseCSVLineFrom(line, i + 1, result, current, ~inQuotes)
    ELSE IF line[i] = "," /\ ~inQuotes
         THEN ParseCSVLineFrom(line, i + 1, Append(result, current), <<>>,
                               inQuotes)
    ELSE ParseCSVLineFrom(line, i + 1, result, Append(current, line[i]),
                          inQuotes)

\* parseCSVLine splitting on every comma.
parseCSVLineOnEveryComma(line) ==
    LET NotQuote(c) == c # "\"" IN Split(SelectSeq(line, NotQuote), ",")

\* CSVParser.parseCSVLine
parseCSVLine(line) == ParseCSVLineFrom(line, 1, <<>>, <<>>, FALSE)

\* headers.forEach((header, index) => row[header.trim()] = values[index].trim())
\* from header n down to the first, on an empty object.
RECURSIVE RowOf(_, _, _)
RowOf(headers, values, n) ==
    IF n = 0 THEN <<>>
    ELSE MapSet(RowOf(headers, values, n - 1), Trim(headers[n]),
                Trim(values[n]))

\* The for loop of parseCSV over lines[1..] (0-based), up to line n.
RECURSIVE ParsedLines(_, _, _)
ParsedLines(lines, headers, n) ==
    IF n <= 1 THEN <<>>
    ELSE LET data   == ParsedLines(lines, headers, n - 1)
             values == parseCSVLine(lines[n])
         IN  IF Len(values) = Len(headers)
             THEN Append(data, RowOf(headers, values, Len(headers)))
             ELSE data

\* CSVParser.parseCSV
parseCSV(text) ==
    LET lines   == Split(Trim(text), "\n")
        headers == Split(lines[1], ",")
    IN  ParsedLines(lines, headers, Len(lines))

\* Object.keys(row)
ObjectKeys(row) == MapKeys(row)

----------------------------------------------------------------------------
(* The analysis index, the server of CSV files and CSVParser.loadCSV.      *)
(* analysisIndex.platforms is a sequence of [key, value] records from      *)
(* platform name to its versions array.  An element of a versions array   *)
(* is [shape, version]: a bare string ("string") or an object              *)
(* {version, sha1} ("object"); "undefined" stands for undefined.           *)

\* `${platform}/${version}.csv`
CsvUrl(platform, version) == <<platform, version>>

VersionString(version) == [shape |-> "string", version |-> version]

VersionObject(version) == [shape |-> "object", version |-> version]

Undefined == [shape |-> "undefined", version |-> <<>>]

\* versions.map(v => v.version)
VersionProperties(versions) ==
    [i \in 1..Len(versions) |->
        IF versions[i].shape = "object" THEN VersionString(versions[i].version)
        ELSE Undefined]

\* DefoldSizeAnalyzer.getVersionsForPlatform
getVersionsForPlatform(index, platform) ==
    IF ~MapHas(index, platform) THEN <<>>
    ELSE LET versions == CHOOSE x \in MapGet(index, platform) : TRUE
         IN  IF /\ Len(versions) > 0
                /\ versions[1].shape = "object"
                /\ versions[1].version # <<>>
             THEN VersionProperties(versions)
             ELSE versions

\* What fetch(url) followed by response.text() gives: the text of the file,
\* or a failure (a network error or a response that is not ok).
FetchFailure == <<"fetch failed">>

\* CSVParser.loadCSV(url) with the cache and the server as they are: the
\* data returned, or a failure thrown, and the cache afterwards.
loadCSV(cache, files, url) ==
    IF MapHas(cache, url)
    THEN [threw |-> FALSE, data |-> CHOOSE d \in MapGet(cache, url) : TRUE,
          cache |-> cache]
    ELSE IF files[url] = FetchFailure
    THEN [threw |-> TRUE, data |-> <<>>, cache |-> cache]
    ELSE LET data == parseCSV(files[url])
         IN  [threw |-> FALSE, data |-> data,
              cache |-> MapSet(cache, url, data)]

----------------------------------------------------------------------------
(* DataProcessor.getVersionsInRange and getFileTimeline *)

\* allVersions.filter(...): version.split('.') is a TypeError on an element
\* that is not a string.
FilterThrows(allVersions) ==
    \E i \in 1..Len(allVersions) : allVersions[i].shape # "string"

\* Array.prototype.sort(compareVersions): a stable sort, by insertion.
RECURSIVE InsertVersion(_, _)
InsertVersion(sorted, version) ==
    IF sorted = <<>> THEN <<version>>
    ELSE IF compareVersions(sorted[Len(sorted)], version) <= 0
         THEN Append(sorted, version)
    ELSE Append(InsertVersion(SubSeq(sorted, 1, Len(sorted) - 1), version),
                sorted[Len(sorted)])

RECURSIVE SortVersions(_)
SortVersions(versions) ==
    IF versions = <<>> THEN <<>>
    ELSE InsertVersion(SortVersions(SubSeq(versions, 1, Len(versions) - 1)),
                       versions[Len(versions)])

\* getVersionsInRange leaving the end version out.
getVersionsInRangeBeforeEnd(allVersions, startVersion, endVersion) ==
    LET InRange(version) ==
            /\ compareVersions(version, startVersion) >= 0
            /\ compareVersions(version, endVersion) < 0
    IN  SortVersions(
            SelectSeq([i \in 1..Len(allVersions) |-> allVersions[i].version],
                      InRange))

\* DataProcessor.getVersionsInRange on an array of strings
getVersionsInRange(allVersions, startVersion, endVersion) ==
    LET InRange(version) ==
            /\ compareVersions(version, startVersion) >= 0
            /\ compareVersions(version, endVersion) <= 0
    IN  SortVersions(
            SelectSeq([i \in 1..Len(allVersions) |-> allVersions[i].version],
                      InRange))

\* DataProcessor.normalizeFilePath(row[filenameColumn]) of an optional cell:
\* undefined is returned as it is.
NormalizedCell(cell) == {normalizeFilePath(x) : x \in cell}

\* csvData.find(row => normalizeFilePath(row[filenameColumn]) === normalized)
\* as an optional row.
FindRow(csvData, filenameColumn, normalizedFileName) ==
    LET matching ==
            {i \in 1..Len(csvData) :
                NormalizedCell(MapGet(csvData[i], filenameColumn))
                    = {normalizedFileName}}
    IN  IF matching = {} THEN {}
        ELSE {csvData[CHOOSE i \in matching : \A j \in matching : i <= j]}

\* The filename column after the detection step of one loop iteration.
DetectedFilenameColumn(csvData, filenameColumn) ==
    IF Len(csvData) > 0 /\ filenameColumn = CompileunitsName
    THEN CHOOSE c \in getFilenameColumn(ObjectKeys(csvData[1])) : TRUE
    ELSE filenameColumn

\* The point pushed by the try block of one loop iteration.
TimelinePoint(version, csvData, filenameColumn, fileName, metricType) ==
    LET fileRow == FindRow(csvData, filenameColumn,
                           normalizeFilePath(fileName))
    IN  [version |-> version,
         size    |-> IF fileRow = {} THEN 0
                     ELSE OrZero(parseInt(
                              MapGet(CHOOSE r \in fileRow : TRUE,
                                     metricType))),
         exists  |-> fileRow # {}]

\* The point pushed by the catch block.
MissingPoint(version) == [version |-> version, size |-> 0, exists |-> FALSE]

----------------------------------------------------------------------------
(* The timeline of one file over the versions of a range *)

\* The versions an index may list.
TimelineVersions ==
    {<<"1", ".", "2">>, <<"1", ".", "1", "0">>, <<"2", ".", "0">>}

\* Versions arrays without repetition.
VersionLists ==
    {vs \in SeqsUpTo(TimelineVersions, MaxIndexVersions) :
        \A i, j \in 1..Len(vs) : i # j => vs[i] # vs[j]}

\* Lines of a CSV file: a header naming the identity column either way and
\* data lines of two paths (one written with a prefix the normalizer strips)
\* and a metric that is a number or not.
TimelineHeaderLines ==
    {CompileunitsName \o <<",">> \o VmsizeName,
     FilenameName \o <<",">> \o VmsizeName}

TimelineDataLines ==
    {p \o <<",">> \o c :
        p \in {<<".", "/", "a", "/", "x">>, <<"b", "/", "x">>},
        c \in {<<"1", "9">>, <<"-">>}}

TimelineTexts ==
    {Join(<<h>> \o ls, "\n") :
        h \in TimelineHeaderLines,
        ls \in SeqsUpTo(TimelineDataLines, MaxTimelineRows)}

TimelineFileName == <<"a", "/", "x">>

TimelinePlatform == "arm64-android"

TlInit ==
    /\ \E vs \in VersionLists, shape \in {"string", "object"} :
         /\ analysisIndex =
                <<[key   |-> TimelinePlatform,
                   value |-> [i \in 1..Len(vs) |->
                                 [shape |-> shape, version |-> vs[i]]]]>>
         /\ server \in [{CsvUrl(TimelinePlatform, vs[i]) : i \in 1..Len(vs)}
                            -> TimelineTexts \cup {FetchFailure}]
    /\ csvCache = <<>>
    /\ tlArgs \in [fileName     : {TimelineFileName},
                   platform     : {TimelinePlatform},
                   startVersion : TimelineVersions,
                   endVersion   : TimelineVersions,
                   metricType   : {VmsizeName}]
    /\ tlVersionsInRange = <<>> /\ tlNext = 0 /\ timeline = <<>>
    /\ tlFilenameColumn = <<>> /\ tlPc = "called"
    /\ CmpIdle /\ NormIdle /\ VerIdle /\ HdrIdle /\ CsvIdle
    /\ ThrIdle /\ UiIdle /\ SumIdle /\ MoreIdle

\* getFileTimeline up to the for loop: the index is fetched, the versions of
\* the range are taken from the platform's versions array.
TimelineStart ==
    /\ tlPc = "called"
    /\ LET allVersions ==
               CHOOSE x \in MapGet(analysisIndex, tlArgs.platform) : TRUE
       IN  IF FilterThrows(allVersions)
           THEN /\ tlPc' = "rejected"
                /\ UNCHANGED <<tlVersionsInRange, tlNext, tlFilenameColumn>>
           ELSE LET inRange == getVersionsInRange(allVersions,
                                   tlArgs.startVersion, tlArgs.endVersion)
                IN  /\ tlVersionsInRange' = inRange
                    /\ tlNext' = 1
                    /\ tlFilenameColumn' = CompileunitsName
                    /\ tlPc' = IF inRange = <<>> THEN "returned"
                               ELSE "loading"
    /\ UNCHANGED <<analysisIndex, server, csvCache, tlArgs, timeline>>
    /\ UNCHANGED <<cmpVars, normVars, verVars, hdrVars, csvVars, thrVars,
                   uiVars,
                   sumVars,
                   moreVars>>

\* One iteration of the for loop: the version's CSV is loaded and its point
\* pushed, or the load throws and the catch block pushes the missing point.
TimelineLoadVersion ==
    /\ tlPc = "loading"
    /\ LET version == tlVersionsInRange[tlNext]
           loaded  == loadCSV(csvCache, server,
                              CsvUrl(tlArgs.platform, version))
           column  == DetectedFilenameColumn(loaded.data, tlFilenameColumn)
       IN  /\ csvCache' = loaded.cache
           /\ IF loaded.threw
              THEN /\ timeline' = Append(timeline, MissingPoint(version))
                   /\ UNCHANGED tlFilenameColumn
              ELSE /\ tlFilenameColumn' = column
                   /\ timeline' =
                          Append(timeline,
                                 TimelinePoint(version, loaded.data, column,
                                               tlArgs.fileName,
                                               tlArgs.metricType))
    /\ tlNext' = tlNext + 1
    /\ tlPc' = IF tlNext = Len(tlVersionsInRange) THEN "returned"
               ELSE "loading"
    /\ UNCHANGED <<analysisIndex, server, tlArgs, tlVersionsInRange>>
    /\ UNCHANGED <<cmpVars, normVars, verVars, hdrVars, csvVars, thrVars,
                   uiVars,
                   sumVars,
                   moreVars>>

TlNext == TimelineStart \/ TimelineLoadVersion

SpecTl == TlInit /\ [][TlNext]_vars

----------------------------------------------------------------------------
(* The identity column and the metric columns of a header row *)

\* Header names as they may stand in a header line: the two identity names
\* in other letter cases and with blanks around them, and two metric names.
HeaderTexts ==
    {CompileunitsName,
     <<" ", "F", "i", "l", "e", "N", "a", "m", "e">>,
     <<"F", "I", "L", "E", "N", "A", "M", "E", " ">>,
     VmsizeName,
     <<" ", "f", "i", "l", "e", "s", "i", "z", "e">>}

HdrInit ==
    /\ hdrHeaders \in SeqsUpTo(HeaderTexts, MaxHeaders)
    /\ hdrMetrics = <<>> /\ hdrFilenameColumn = {} /\ hdrDone = FALSE
    /\ CmpIdle /\ NormIdle /\ VerIdle /\ EnvIdle /\ TlIdle /\ CsvIdle
    /\ ThrIdle /\ UiIdle /\ SumIdle /\ MoreIdle

\* The two calls compareVersions makes on the headers of the first row.
IdentifyColumns ==
    /\ ~hdrDone
    /\ hdrMetrics' = getMetricsFromHeaders(hdrHeaders)
    /\ hdrFilenameColumn' = getFilenameColumn(hdrHeaders)
    /\ hdrDone' = TRUE
    /\ UNCHANGED <<hdrHeaders, cmpVars, normVars, verVars, envVars, tlVars,
                   csvVars, thrVars, uiVars,
                   sumVars,
                   moreVars>>

HdrNext == IdentifyColumns

SpecHdr == HdrInit /\ [][HdrNext]_vars

----------------------------------------------------------------------------
(* The parser applied to a text *)

CsvChars == {"a", ",", "\"", "\n", " "}

CsvInit ==
    /\ csvText \in SeqsUpTo(CsvChars, MaxTextLen)
    /\ csvRows = <<>> /\ csvDone = FALSE
    /\ CmpIdle /\ NormIdle /\ VerIdle /\ EnvIdle /\ TlIdle /\ HdrIdle
    /\ ThrIdle /\ UiIdle /\ SumIdle /\ MoreIdle

ParseText ==
    /\ ~csvDone
    /\ csvRows' = parseCSV(csvText)
    /\ csvDone' = TRUE
    /\ UNCHANGED <<csvText, cmpVars, normVars, verVars, envVars, tlVars,
                   hdrVars, thrVars, uiVars,
                   sumVars,
                   moreVars>>

CsvNext == ParseText

SpecCsv == CsvInit /\ [][CsvNext]_vars

----------------------------------------------------------------------------
(* The threshold slider: processAndDisplayComparison and onThresholdChange *)
(* on the two snapshots held in currentComparison                          *)

\* Array.prototype.sort((a, b) => a - b), by insertion.
RECURSIVE SortAscending(_)
SortAscending(ns) ==
    IF ns = <<>> THEN <<>>
    ELSE LET front == SortAscending(SubSeq(ns, 1, Len(ns) - 1))
             n     == ns[Len(ns)]
             k     == Cardinality({i \in 1..Len(front) : front[i] <= n})
         IN  SubSeq(front, 1, k) \o <<n>> \o SubSeq(front, k + 1, Len(front))

\* comp.size || 0 of a size, which is a number
OrZeroSize(size) == IF size = 0 THEN 0 ELSE size

\* The number of top differences left out of the slider's maximum.
OutlierCount == 30

\* DefoldSizeAnalyzer.calculateThresholdRange
calculateThresholdRange(cs) ==
    LET IsNonZero(diff) == diff > 0
        nonZeroDiffs ==
            SortAscending(SelectSeq([i \in 1..Len(cs) |->
                                        Abs(cs[i].difference)], IsNonZero))
        trimmedDiffs ==
            IF Len(nonZeroDiffs) > OutlierCount
            THEN SubSeq(nonZeroDiffs, 1, Len(nonZeroDiffs) - OutlierCount)
            ELSE nonZeroDiffs
    IN  IF nonZeroDiffs = <<>>
        THEN [min |-> 1, max |-> 1000, median |-> 50]
        ELSE [min    |-> nonZeroDiffs[1],
              max    |-> trimmedDiffs[Len(trimmedDiffs)],
              median |-> nonZeroDiffs[(Len(nonZeroDiffs) \div 2) + 1]]

\* DefoldSizeAnalyzer.updateThresholdSlider: the slider afterwards.
updateThresholdSlider(thresholdRange) ==
    [min   |-> thresholdRange.min,
     max   |-> thresholdRange.max,
     value |-> thresholdRange.median]

\* Rows under the slider: three of the paths, and the metric cells 19, 21
\* and "-", whose differences are 0, 2, 19 and 21 in size.
SliderRows ==
    {r \in Rows :
        /\ r[FilenameColumn] # <<".", "/", "x">>
        /\ r[Metric] # <<"2", "3">>}

\* The entries prepareHistogramData keeps, with their change, largest
\* change first: a stable sort, by insertion.
RECURSIVE SortByAbsChange(_)
SortByAbsChange(cs) ==
    IF cs = <<>> THEN <<>>
    ELSE LET front == SortByAbsChange(SubSeq(cs, 1, Len(cs) - 1))
             e     == cs[Len(cs)]
             n     == Cardinality({i \in 1..Len(front) :
                          Abs(front[i].change) >= Abs(e.change)})
         IN  SubSeq(front, 1, n) \o <<e>> \o SubSeq(front, n + 1, Len(front))

\* The filter of prepareHistogramData.
KeptInHistogram(comp, threshold) ==
    Abs(OrZeroSize(comp.size2) - OrZeroSize(comp.size1)) >= threshold

\* PlotlyHistogramChart.prepareHistogramData: the full file names and the
\* bar values of the chart, and the two counts.
prepareHistogramData(cs, threshold) ==
    LET Kept(comp) == KeptInHistogram(comp, threshold)
        kept == SelectSeq(cs, Kept)
        processedComparisons ==
            SortByAbsChange(
                [i \in 1..Len(kept) |->
                    [compileUnit |-> kept[i].compileUnit,
                     change |-> OrZeroSize(kept[i].size2)
                                    - OrZeroSize(kept[i].size1)]])
        n == Len(processedComparisons)
    IN  [fullFileNames  |-> [i \in 1..n |->
                                processedComparisons[i].compileUnit],
         barValues      |-> [i \in 1..n |-> processedComparisons[i].change],
         increasedCount |-> Cardinality({i \in 1..n :
                                processedComparisons[i].change > 0}),
         decreasedCount |-> Cardinality({i \in 1..n :
                                ~(processedComparisons[i].change > 0)})]

\* PlotlyHistogramChart.render as displayResults calls it: on the
\* comparisons of the metric and the value of the slider; an empty list
\* shows a message and leaves the chart data as it was.
DisplayResults ==
    histogram' =
        IF comparisons' = <<>> THEN histogram
        ELSE {prepareHistogramData(comparisons', thresholdSlider'.value)}

\* Long comparison lists: zeros entries of difference 0 followed by n
\* entries whose |difference| is 1, 1 + step, 1 + 2 * step, ..., in
\* ascending or descending order, every second one negative if mixed.
MaxRangeEntries == 32

MaxRangeStep == 2

RangeList(n, zeros, step, descending, mixed) ==
    [i \in 1..(zeros + n) |->
        IF i <= zeros THEN [difference |-> 0]
        ELSE LET k == IF descending THEN n + 1 - (i - zeros) ELSE i - zeros
                 size == 1 + step * (k - 1)
             IN  [difference |-> IF mixed /\ k % 2 = 0 THEN -size ELSE size]]

RngInit ==
    /\ \E n \in 0..MaxRangeEntries, zeros \in 0..1, step \in 0..MaxRangeStep,
          descending \in BOOLEAN, mixed \in BOOLEAN :
           rngComparisons = RangeList(n, zeros, step, descending, mixed)
    /\ rngRange = <<>>
    /\ rngSlider = <<>>
    /\ rngDone = FALSE
    /\ CmpIdle /\ NormIdle /\ VerIdle /\ EnvIdle /\ TlIdle /\ HdrIdle
    /\ CsvIdle /\ ThrIdle /\ UiIdle /\ SumIdle /\ DashIdle

\* processAndDisplayComparison's two calls on the list: the range is
\* calculated and the slider is given it.
CalculateThresholdRange ==
    /\ ~rngDone
    /\ rngRange' = calculateThresholdRange(rngComparisons)
    /\ rngSlider' = updateThresholdSlider(rngRange')
    /\ rngDone' = TRUE
    /\ UNCHANGED <<rngComparisons, cmpVars, normVars, verVars, envVars,
                   tlVars, hdrVars, csvVars, thrVars, uiVars, sumVars,
                   dashVars>>

RngNext == CalculateThresholdRange

SpecRng == RngInit /\ [][RngNext]_vars

ThrInit ==
    /\ data1 \in SeqsUpTo(SliderRows, MaxSliderRows1)
    /\ data2 \in SeqsUpTo(SliderRows, MaxSliderRows2)
    /\ changeThreshold = 0
    /\ comparisons = <<>> /\ mergedData1 = <<>> /\ mergedData2 = <<>>
    /\ matchedMoves = <<>> /\ previous = <<>> /\ cmpPc = "loaded"
    /\ thresholdSlider = [min |-> 0, max |-> 0, value |-> 0]
    /\ histogram = {}
    /\ NormIdle /\ VerIdle /\ EnvIdle /\ TlIdle /\ HdrIdle /\ CsvIdle
    /\ UiIdle /\ SumIdle /\ MoreIdle

\* RunComparator keeping only the entries that changed under the threshold.
RunComparatorChangedOnly(threshold) ==
    \E moveDetection \in {MoveDetection(data1, data2, Metric, FilenameColumn)} :
        LET IsChanged(c) == c.changeType # "unchanged"
        IN  /\ changeThreshold' = threshold
            /\ comparisons' =
                   SelectSeq(processDataByMetric(data1, data2, Metric,
                                                 threshold, FilenameColumn),
                             IsChanged)
            /\ mergedData1' = moveDetection.mergedData1
            /\ mergedData2' = moveDetection.mergedData2
            /\ matchedMoves' = moveDetection.moveInfo
            /\ UNCHANGED <<data1, data2>>

\* The reprocessing loop of onThresholdChange and of
\* processAndDisplayComparison for the one metric of the rows.
ReprocessMetrics(threshold) == RunComparator(threshold)

\* processAndDisplayComparison: the comparisons at threshold 0 give the
\* slider its range and its value, and the metric is reprocessed with it.
ProcessAndDisplayComparison ==
    /\ cmpPc = "loaded"
    /\ \E thresholdRange \in
              {calculateThresholdRange(
                   processDataByMetric(data1, data2, Metric, 0,
                                       FilenameColumn))} :
         /\ thresholdSlider' = updateThresholdSlider(thresholdRange)
         /\ ReprocessMetrics(thresholdRange.median)
    /\ DisplayResults
    /\ cmpPc' = "displayed"
    /\ UNCHANGED <<previous, normVars, verVars, envVars, tlVars, hdrVars,
                   csvVars, uiVars,
                   sumVars,
                   moreVars>>

\* onThresholdChange after the slider was moved to a value of its range.
OnThresholdChange(value) ==
    /\ cmpPc \in {"displayed", "rethresholded"}
    /\ value \in thresholdSlider.min..thresholdSlider.max
    /\ value # thresholdSlider.value
    /\ thresholdSlider' = [thresholdSlider EXCEPT !.value = value]
    /\ previous' = [data1 |-> data1, data2 |-> data2,
                    comparisons |-> comparisons]
    /\ ReprocessMetrics(value)
    /\ DisplayResults
    /\ cmpPc' = "rethresholded"
    /\ UNCHANGED <<normVars, verVars, envVars, tlVars, hdrVars, csvVars,
                   uiVars,
                   sumVars,
                   moreVars>>

ThrNext ==
    \/ ProcessAndDisplayComparison
    \/ \E value \in 1..MaxSliderValue : OnThresholdChange(value)

SpecThr == ThrInit /\ [][ThrNext]_vars

----------------------------------------------------------------------------
(* DefoldSizeAnalyzer and the page.  The application is one record: the    *)
(* object's fields, the three selects, the pending timers and the          *)
(* compareVersions calls waiting for their CSV files.  A handler is an     *)
(* operator from the record before to the record after.                    *)

\* A select element: its options and the position of the selected one
\* (0 when no option is selected, value '').
EmptySelect == [options |-> <<>>, selected |-> 0]

\* select.value
ValueOf(select) ==
    IF select.selected = 0 THEN <<>> ELSE select.options[select.selected]

\* Options appended to an emptied select: the first one becomes selected.
SelectOf(options) ==
    [options |-> options, selected |-> IF options = <<>> THEN 0 ELSE 1]

\* querySelector(`option[value="${value}"]`)
HasOption(select, value) ==
    \E i \in 1..Len(select.options) : select.options[i] = value

\* select.value = value: the first option of that value is selected, none
\* when there is no such option.
SetValue(select, value) ==
    [select EXCEPT !.selected =
        IF HasOption(select, value)
        THEN CHOOSE i \in 1..Len(select.options) :
                 /\ select.options[i] = value
                 /\ \A j \in 1..(i - 1) : select.options[j] # value
        ELSE 0]

\* array.includes(value)
Includes(array, value) == \E i \in 1..Len(array) : array[i] = value

\* array.indexOf(value), 1-based, 0 when absent
IndexOf(array, value) ==
    IF Includes(array, value)
    THEN CHOOSE i \in 1..Len(array) :
             array[i] = value /\ \A j \in 1..(i - 1) : array[j] # value
    ELSE 0

\* The version strings getVersionsForPlatform returns.
VersionsOf(index, platform) ==
    LET versions == getVersionsForPlatform(index, platform)
    IN  [i \in 1..Len(versions) |-> versions[i].version]

\* setStatus(message, type): the message is kept by its kind.
setStatus(a, message) == [a EXCEPT !.status = message]

\* DefoldSizeAnalyzer.clearResults
clearResults(a) ==
    [a EXCEPT !.currentComparison = {},
              !.availableMetrics = <<>>,
              !.activeTab = {},
              !.filenameColumn = {CompileunitsName}]

\* DefoldSizeAnalyzer.populatePlatformSelect
populatePlatformSelect(a, index) ==
    [a EXCEPT !.platformSelect = SelectOf(MapKeys(index))]

\* DefoldSizeAnalyzer.populateVersionSelects
populateVersionSelects(a, index, platform) ==
    LET versions == VersionsOf(index, platform)
    IN  [a EXCEPT !.allVersions = {versions},
                  !.version1Select =
                      SelectOf(SubSeq(versions, 1, Len(versions) - 1)),
                  !.version2Select =
                      SelectOf(SubSeq(versions, 2, Len(versions)))]

\* DefoldSizeAnalyzer.clearVersionSelects
clearVersionSelects(a) ==
    [a EXCEPT !.version1Select = EmptySelect, !.version2Select = EmptySelect]

\* DefoldSizeAnalyzer.updateCompareVersions
updateCompareVersions(a) ==
    LET selectedBaseline == ValueOf(a.version1Select)
        allVersions == CHOOSE x \in a.allVersions : TRUE
        baselineIndex == IndexOf(allVersions, selectedBaseline)
        currentCompareVersion == ValueOf(a.version2Select)
        availableCompareVersions ==
            SubSeq(allVersions, baselineIndex + 1, Len(allVersions))
        populated == SelectOf(availableCompareVersions)
    IN  IF selectedBaseline = <<>> \/ a.allVersions = {} THEN a
        ELSE IF baselineIndex = 0 THEN a
        ELSE [a EXCEPT !.version2Select =
                 IF /\ currentCompareVersion # <<>>
                    /\ Includes(availableCompareVersions,
                                currentCompareVersion)
                 THEN SetValue(populated, currentCompareVersion)
                 ELSE IF Len(availableCompareVersions) > 0
                 THEN SetValue(populated, availableCompareVersions[1])
                 ELSE populated]

\* setTimeout(callback, delay): the timer is pending with its delay left.
SetTimeout(a, kind, delay, first, second) ==
    [a EXCEPT !.timers =
        Append(@, [kind |-> kind, remaining |-> delay,
                   first |-> first, second |-> second])]

\* The delay of the timer of setDefaultVersions.
DefaultsDelay == 10

\* The delay of each of the two timers of applyUrlParameters.
UrlDelay == 100

\* DefoldSizeAnalyzer.setDefaultVersions
setDefaultVersions(a, versions) ==
    IF Len(versions) >= 2
    THEN SetTimeout(a, "defaults", DefaultsDelay,
                    versions[Len(versions) - 1], versions[Len(versions)])
    ELSE IF Len(versions) = 1
    THEN LET a1 == IF ValueOf(a.version1Select) = <<>>
                   THEN [a EXCEPT !.version1Select =
                            SetValue(@, versions[1])]
                   ELSE a
         IN  IF ValueOf(a1.version2Select) = <<>>
             THEN [a1 EXCEPT !.version2Select = SetValue(@, versions[1])]
             ELSE a1
    ELSE a

\* A row object read as a function from its keys, as processDataByMetric
\* reads it (row[filenameColumn], row[metricType]).
RowAsFunction(row) ==
    [k \in {row[i].key : i \in 1..Len(row)} |->
        CHOOSE v \in MapGet(row, k) : TRUE]

RowsAsFunctions(data) == [i \in 1..Len(data) |-> RowAsFunction(data[i])]

\* this.availableMetrics.forEach(metric => metricComparisons[metric] = ...)
RECURSIVE MetricComparisons(_, _, _, _, _, _)
MetricComparisons(metrics, n, d1, d2, threshold, filenameColumn) ==
    IF n = 0 THEN <<>>
    ELSE MapSet(MetricComparisons(metrics, n - 1, d1, d2, threshold,
                                  filenameColumn),
                metrics[n],
                processDataByMetric(d1, d2, metrics[n], threshold,
                                    filenameColumn))

\* metricComparisons[metric] || []
ComparisonsOf(metricComparisons, metric) ==
    IF metric = {} THEN <<>>
    ELSE LET found == MapGet(metricComparisons,
                             CHOOSE x \in metric : TRUE)
         IN  IF found = {} THEN <<>> ELSE CHOOSE x \in found : TRUE

\* processAndDisplayComparison from the reprocessing on: the comparisons of
\* every metric, and those of the first metric, are stored.
StoreComparisons(a, slider, metricComparisons) ==
    [a EXCEPT
        !.slider = slider,
        !.currentComparison =
            {[data1 |-> c.data1, data2 |-> c.data2,
              platform |-> c.platform,
              version1 |-> c.version1,
              version2 |-> c.version2,
              metricComparisons |-> metricComparisons,
              comparisons |->
                  ComparisonsOf(metricComparisons,
                                IF a.availableMetrics = <<>> THEN {}
                                ELSE {a.availableMetrics[1]})] :
             c \in a.currentComparison},
        !.status = "complete"]

\* this.filenameColumn as processDataByMetric receives it: its default
\* parameter value applies while the field is undefined.
FilenameColumnOf(a) ==
    IF a.filenameColumn = {} THEN CompileunitsName
    ELSE CHOOSE c \in a.filenameColumn : TRUE

\* Every metric processed with a threshold.
ProcessMetrics(a, d1, d2, threshold) ==
    MetricComparisons(a.availableMetrics, Len(a.availableMetrics),
                      RowsAsFunctions(d1), RowsAsFunctions(d2), threshold,
                      FilenameColumnOf(a))

\* processAndDisplayComparison from the slider update on.
ReprocessAndStore(a, d1, d2, slider) ==
    StoreComparisons(a, slider, ProcessMetrics(a, d1, d2, slider.value))

\* DefoldSizeAnalyzer.processAndDisplayComparison on the rows of the two
\* versions.
ProcessAndDisplayRows(a, d1, d2) ==
    ReprocessAndStore(
        a, d1, d2,
        updateThresholdSlider(
            calculateThresholdRange(
                ComparisonsOf(ProcessMetrics(a, d1, d2, 0), a.activeTab))))

\* DefoldSizeAnalyzer.processAndDisplayComparison
processAndDisplayComparison(a) ==
    ProcessAndDisplayRows(a,
                          (CHOOSE c \in a.currentComparison : TRUE).data1,
                          (CHOOSE c \in a.currentComparison : TRUE).data2)

\* The platform and the two versions of a call or of a stored comparison.
SelectionOf(c) ==
    [platform |-> c.platform, version1 |-> c.version1,
     version2 |-> c.version2]

\* The selects as they stand: the selection a call made now would carry.
CurrentSelection(a) ==
    [platform |-> ValueOf(a.platformSelect),
     version1 |-> ValueOf(a.version1Select),
     version2 |-> ValueOf(a.version2Select)]

\* CompareContinuation dropping the result of a call that was superseded:
\* the call is over, its data are stored only if the selects still show its
\* platform and versions.
CompareContinuationUnlessSuperseded(a, request) ==
    LET d1 == CHOOSE d \in request.data[1] : TRUE
        d2 == CHOOSE d \in request.data[2] : TRUE
        over == [a EXCEPT !.lastCompleted = {SelectionOf(request)}]
    IN  IF SelectionOf(request) # CurrentSelection(a) THEN over
        ELSE processAndDisplayComparison(
                 [over EXCEPT !.currentComparison =
                     {[data1 |-> d1, data2 |-> d2,
                       platform |-> request.platform,
                       version1 |-> request.version1,
                       version2 |-> request.version2]}])

\* DefoldSizeAnalyzer.compareVersions after the await, the data loaded.
CompareContinuation(a, request) ==
    LET d1 == CHOOSE d \in request.data[1] : TRUE
        d2 == CHOOSE d \in request.data[2] : TRUE
        headers == ObjectKeys(d1[1])
        metrics == getMetricsFromHeaders(headers)
        a1 == IF Len(d1) > 0
              THEN [a EXCEPT
                      !.availableMetrics = metrics,
                      !.filenameColumn = getFilenameColumn(headers),
                      !.activeTab = IF Len(metrics) > 0 THEN {metrics[1]}
                                    ELSE {}]
              ELSE a
    IN  processAndDisplayComparison(
            [a1 EXCEPT !.lastCompleted = {SelectionOf(request)},
                       !.currentComparison =
                {[data1 |-> d1, data2 |-> d2,
                  platform |-> request.platform,
                  version1 |-> request.version1,
                  version2 |-> request.version2]}])

\* CompareCatch clearing the results as well.
CompareCatchClearingResults(a) == clearResults(setStatus(a, "error-data"))

\* DefoldSizeAnalyzer.compareVersions after the await, a load failed: the
\* catch block.
CompareCatch(a) == setStatus(a, "error-data")

\* CSVParser.loadCSV up to its first await: the cached rows, if any.
CachedData(cache, url) == MapGet(cache, url)

\* DefoldSizeAnalyzer.compareVersions up to the await: the two loads are
\* started, each answered from the cache when the cache has its url.
AnalyzerCompareVersions(a, cache) ==
    LET platform == ValueOf(a.platformSelect)
        version1 == ValueOf(a.version1Select)
        version2 == ValueOf(a.version2Select)
        cached1 == CachedData(cache, CsvUrl(platform, version1))
        cached2 == CachedData(cache, CsvUrl(platform, version2))
    IN  IF platform = <<>> \/ version1 = <<>> \/ version2 = <<>>
        THEN setStatus(a, "select-all")
        ELSE [a EXCEPT
                 !.status = "loading-data",
                 !.startedOnSame = @ \/ version1 = version2,
                 !.requests =
                     Append(@, [platform |-> platform,
                                version1 |-> version1,
                                version2 |-> version2,
                                data     |-> <<cached1, cached2>>,
                                pending  |-> {s \in {1, 2} :
                                                 <<cached1, cached2>>[s] = {}},
                                rejected |-> FALSE])]

\* The calls whose two loads are done and that were not rejected: their
\* continuations are the promise jobs that run before any other task.
ReadyRequests(a) ==
    {i \in 1..Len(a.requests) :
        a.requests[i].pending = {} /\ ~a.requests[i].rejected}

\* The requests but the one at position i.
WithoutRequest(requests, i) ==
    [j \in 1..(Len(requests) - 1) |->
        IF j < i THEN requests[j] ELSE requests[j + 1]]

\* DefoldSizeAnalyzer.onVersionChange
onVersionChange(a, cache) ==
    LET version1 == ValueOf(a.version1Select)
        version2 == ValueOf(a.version2Select)
    IN  IF version1 = version2 /\ version1 # <<>>
        THEN clearResults(setStatus(a, "select-different"))
        ELSE IF version1 # <<>> /\ version2 # <<>> /\ version1 # version2
        THEN AnalyzerCompareVersions(a, cache)
        ELSE clearResults(a)

\* DefoldSizeAnalyzer.onVersion1Change
onVersion1Change(a, cache) == onVersionChange(updateCompareVersions(a), cache)

\* DefoldSizeAnalyzer.onPlatformChange
onPlatformChange(a, index, cache) ==
    LET selectedPlatform == ValueOf(a.platformSelect)
        currentVersion1 == ValueOf(a.version1Select)
        currentVersion2 == ValueOf(a.version2Select)
        newVersions == VersionsOf(index, selectedPlatform)
        a1 == populateVersionSelects(a, index, selectedPlatform)
        a2 == IF /\ currentVersion1 # <<>>
                 /\ Includes(newVersions, currentVersion1)
              THEN [a1 EXCEPT !.version1Select =
                       SetValue(@, currentVersion1)]
              ELSE a1
        a3 == IF /\ currentVersion2 # <<>>
                 /\ Includes(newVersions, currentVersion2)
              THEN [a2 EXCEPT !.version2Select =
                       SetValue(@, currentVersion2)]
              ELSE a2
        a4 == IF \/ ValueOf(a3.version1Select) = <<>>
                 \/ ValueOf(a3.version2Select) = <<>>
              THEN setDefaultVersions(a3, newVersions)
              ELSE a3
        a5 == IF /\ ValueOf(a4.version1Select) # <<>>
                 /\ ValueOf(a4.version2Select) # <<>>
              THEN AnalyzerCompareVersions(a4, cache)
              ELSE a4
    IN  IF selectedPlatform # <<>> THEN clearResults(a5)
        ELSE clearResults(clearVersionSelects(a))

\* DefoldSizeAnalyzer.applyUrlParameters
applyUrlParameters(a, index, cache) ==
    IF a.urlParams = {} \/ a.indexState # "loaded" THEN a
    ELSE LET params == CHOOSE p \in a.urlParams : TRUE
             a1 == [a EXCEPT !.platformSelect = SetValue(@, params.platform)]
             a2 == onPlatformChange(a1, index, cache)
             a3 == SetTimeout(a2, "urlFrom", UrlDelay, params.fromVersion,
                              params.toVersion)
         IN  IF MapHas(index, params.platform)
             THEN [a3 EXCEPT !.urlParams = {}]
             ELSE a

\* DefoldSizeAnalyzer.setDefaultSelections
setDefaultSelections(a, index, cache) ==
    LET platforms == MapKeys(index)
        firstPlatform == platforms[1]
        a1 == [a EXCEPT !.platformSelect = SetValue(@, firstPlatform)]
        a2 == populateVersionSelects(a1, index, firstPlatform)
        a3 == setDefaultVersions(a2, VersionsOf(index, firstPlatform))
    IN  applyUrlParameters(IF Len(platforms) > 0 THEN a3 ELSE a, index, cache)

\* DefaultsCallback selecting the two versions without comparing them.
DefaultsCallbackSelectingOnly(a, cache, baselineVersion, compareVersion) ==
    LET a1 == [a EXCEPT !.version1Select = SetValue(@, baselineVersion)]
        a2 == updateCompareVersions(a1)
    IN  IF HasOption(a2.version2Select, compareVersion)
        THEN [a2 EXCEPT !.version2Select = SetValue(@, compareVersion)]
        ELSE a2

\* The callback of the timer of setDefaultVersions.
DefaultsCallback(a, cache, baselineVersion, compareVersion) ==
    LET a1 == [a EXCEPT !.version1Select = SetValue(@, baselineVersion)]
        a2 == updateCompareVersions(a1)
        a3 == IF HasOption(a2.version2Select, compareVersion)
              THEN [a2 EXCEPT !.version2Select = SetValue(@, compareVersion)]
              ELSE a2
    IN  IF /\ ValueOf(a3.version1Select) # <<>>
           /\ ValueOf(a3.version2Select) # <<>>
           /\ ValueOf(a3.version1Select) # ValueOf(a3.version2Select)
        THEN AnalyzerCompareVersions(a3, cache)
        ELSE a3

\* The callback of the first timer of applyUrlParameters.
UrlFromCallback(a, cache, fromVersion, toVersion) ==
    LET a1 == IF HasOption(a.version1Select, fromVersion)
              THEN onVersion1Change(
                       [a EXCEPT !.version1Select =
                           SetValue(@, fromVersion)], cache)
              ELSE a
    IN  SetTimeout(a1, "urlTo", UrlDelay, fromVersion, toVersion)

\* The callback of the second timer of applyUrlParameters.
UrlToCallback(a, cache, toVersion) ==
    IF HasOption(a.version2Select, toVersion)
    THEN onVersionChange(
             [a EXCEPT !.version2Select = SetValue(@, toVersion)], cache)
    ELSE a

\* The callback of a pending timer.
TimerCallback(a, cache, timer) ==
    IF timer.kind = "defaults"
    THEN DefaultsCallback(a, cache, timer.first, timer.second)
    ELSE IF timer.kind = "urlFrom"
    THEN UrlFromCallback(a, cache, timer.first, timer.second)
    ELSE UrlToCallback(a, cache, timer.second)

\* The timer that fires next: the one with the least delay left, the one
\* set first among equals.
NextTimer(timers) ==
    CHOOSE i \in 1..Len(timers) :
        \A j \in 1..Len(timers) :
            \/ timers[i].remaining < timers[j].remaining
            \/ timers[i].remaining = timers[j].remaining /\ i <= j

\* The timers left when timer i fires: the time it waited has passed for
\* the others too.
TimersAfter(timers, i) ==
    LET rest == SubSeq(timers, 1, i - 1) \o SubSeq(timers, i + 1, Len(timers))
    IN  [j \in 1..Len(rest) |->
            [rest[j] EXCEPT !.remaining = @ - timers[i].remaining]]

----------------------------------------------------------------------------
(* The page from its construction on: the index arrives, timers fire,      *)
(* CSV files arrive or fail, and the user changes the selects              *)

UiPlatform1 == <<"a", "r", "m">>
UiPlatform2 == <<"x", "8", "6">>

UiVersions == {<<"1">>, <<"2">>, <<"3">>, <<"4">>}

\* Versions arrays of n versions, oldest first.
UiVersionLists(n) ==
    {vs \in SeqsUpTo(UiVersions, n) :
        /\ Len(vs) = n
        /\ \A i, j \in 1..n : i < j => compareVersions(vs[i], vs[j]) < 0}

\* The CSV file of a platform and version: one row, whose metric is the
\* version's number.
UiText(url) ==
    Join(<<CompileunitsName \o <<",">> \o VmsizeName,
           url[1] \o <<"/", "x", ",">> \o url[2]>>, "\n")

\* The query string: none, or platform, from and an newer to, as the
\* dashboard links to the page.
UiLocations ==
    {{}} \cup
    {{[platform |-> p, fromVersion |-> ft[1], toVersion |-> ft[2]]} :
        p \in {UiPlatform1, UiPlatform2},
        ft \in {x \in UiVersions \X UiVersions :
                   compareVersions(x[1], x[2]) < 0}}

\* new DefoldSizeAnalyzer(): the fields of the constructor, the request for
\* the index sent, the parameters of the query string stored.
UiInit ==
    /\ \E vs1 \in UiVersionLists(MinUiVersions),
          vs2 \in UiVersionLists(MaxUiVersions) :
         /\ analysisIndex =
                <<[key   |-> UiPlatform1,
                   value |-> [i \in 1..Len(vs1) |-> VersionString(vs1[i])]],
                  [key   |-> UiPlatform2,
                   value |-> [i \in 1..Len(vs2) |-> VersionObject(vs2[i])]]>>
         /\ server =
                [url \in {CsvUrl(UiPlatform1, vs1[i]) : i \in 1..Len(vs1)}
                         \cup {CsvUrl(UiPlatform2, vs2[i]) : i \in 1..Len(vs2)}
                    |-> UiText(url)]
    /\ csvCache = <<>>
    /\ \E location \in UiLocations :
         app = [indexState        |-> "loading",
                location          |-> location,
                urlParams         |-> location,
                platformSelect    |-> EmptySelect,
                version1Select    |-> EmptySelect,
                version2Select    |-> EmptySelect,
                allVersions       |-> {},
                currentComparison |-> {},
                availableMetrics  |-> <<>>,
                filenameColumn    |-> {},
                activeTab         |-> {},
                slider            |-> [min |-> 0, max |-> 0, value |-> 0],
                status            |-> "loading-index",
                timers            |-> <<>>,
                requests          |-> <<>>,
                startedOnSame     |-> FALSE,
                userEvents        |-> 0,
                failures          |-> 0,
                lastCompleted     |-> {}]
    /\ CmpIdle /\ NormIdle /\ VerIdle /\ TlIdle /\ HdrIdle /\ CsvIdle
    /\ ThrIdle /\ SumIdle /\ MoreIdle

UiFrame ==
    UNCHANGED <<analysisIndex, server, cmpVars, normVars, verVars, tlVars,
                hdrVars, csvVars, thrVars, sumVars,
                   moreVars>>

\* A task starts only when no promise job is left to run.
NoPromiseJob == ReadyRequests(app) = {}

\* loadAnalysisIndex after the index arrived.
IndexLoaded ==
    /\ app.indexState = "loading"
    /\ app' = setStatus(
                  setDefaultSelections(
                      populatePlatformSelect(
                          [app EXCEPT !.indexState = "loaded"],
                          analysisIndex),
                      analysisIndex, csvCache),
                  "ready")
    /\ UNCHANGED csvCache
    /\ UiFrame

\* loadAnalysisIndex after the request for the index failed.
IndexFailed ==
    /\ app.indexState = "loading"
    /\ app' = [app EXCEPT !.indexState = "failed", !.status = "error-index"]
    /\ UNCHANGED csvCache
    /\ UiFrame

\* The user acts on the page once its start-up timers have fired.
UserMayAct ==
    /\ app.indexState = "loaded"
    /\ NoPromiseJob
    /\ app.timers = <<>>
    /\ app.userEvents < MaxUserEvents
    /\ Len(app.requests) < MaxRequests

\* The user picks another platform: the change event of the platform select.
UserSelectsPlatform(platform) ==
    /\ UserMayAct
    /\ HasOption(app.platformSelect, platform)
    /\ platform # ValueOf(app.platformSelect)
    /\ app' = [onPlatformChange(
                   [app EXCEPT !.platformSelect = SetValue(@, platform)],
                   analysisIndex, csvCache)
               EXCEPT !.userEvents = @ + 1]
    /\ UNCHANGED csvCache
    /\ UiFrame

\* The user picks another baseline: the change event of the version1 select.
UserSelectsBaseline(version) ==
    /\ UserMayAct
    /\ HasOption(app.version1Select, version)
    /\ version # ValueOf(app.version1Select)
    /\ app' = [onVersion1Change(
                   [app EXCEPT !.version1Select = SetValue(@, version)],
                   csvCache)
               EXCEPT !.userEvents = @ + 1]
    /\ UNCHANGED csvCache
    /\ UiFrame

\* The user picks another compare version: the change event of the version2
\* select.
UserSelectsCompare(version) ==
    /\ UserMayAct
    /\ HasOption(app.version2Select, version)
    /\ version # ValueOf(app.version2Select)
    /\ app' = [onVersionChange(
                   [app EXCEPT !.version2Select = SetValue(@, version)],
                   csvCache)
               EXCEPT !.userEvents = @ + 1]
    /\ UNCHANGED csvCache
    /\ UiFrame

\* The pending timer that is due next fires.
TimerFires ==
    /\ app.timers # <<>>
    /\ NoPromiseJob
    /\ Len(app.requests) < MaxRequests
    /\ LET i == NextTimer(app.timers)
       IN  app' = TimerCallback([app EXCEPT !.timers = TimersAfter(@, i)],
                                csvCache, app.timers[i])
    /\ UNCHANGED csvCache
    /\ UiFrame

\* The url of load s of a call.
RequestUrl(request, s) ==
    CsvUrl(request.platform,
           IF s = 1 THEN request.version1 ELSE request.version2)

\* CSVParser.loadCSV from the answer of fetch on: a failure is rethrown and
\* the cache left alone, a text is parsed and cached.
LoadCSVAfterFetch(cache, response, url) ==
    IF response = FetchFailure
    THEN [threw |-> TRUE, data |-> <<>>, cache |-> cache]
    ELSE LET data == parseCSV(response)
         IN  [threw |-> FALSE, data |-> data,
              cache |-> MapSet(cache, url, data)]

\* The calls in flight after load s of call i ended: a rejected call with
\* no load left is over.
RequestsAfter(requests, i, s, data, rejected) ==
    IF rejected /\ requests[i].pending = {s}
    THEN WithoutRequest(requests, i)
    ELSE [requests EXCEPT ![i] =
             [@ EXCEPT !.pending = @ \ {s},
                       !.data = [@ EXCEPT ![s] = data],
                       !.rejected = rejected]]

\* A CSV file arrives for load s of call i: loadCSV parses and caches it.
LoadSucceeds(i, s) ==
    /\ NoPromiseJob
    /\ i \in 1..Len(app.requests)
    /\ s \in app.requests[i].pending
    /\ LET request == app.requests[i]
           url == RequestUrl(request, s)
           loaded == LoadCSVAfterFetch(csvCache, server[url], url)
       IN  /\ csvCache' = loaded.cache
           /\ app' = [app EXCEPT !.requests =
                          RequestsAfter(@, i, s, {loaded.data},
                                        request.rejected)]
    /\ UiFrame

\* The fetch of load s of call i fails: loadCSV rethrows, and the call, if
\* not rejected before, runs its catch block.
LoadFails(i, s) ==
    /\ NoPromiseJob
    /\ i \in 1..Len(app.requests)
    /\ s \in app.requests[i].pending
    /\ app.failures < MaxFailures
    /\ LET request == app.requests[i]
           url == RequestUrl(request, s)
           loaded == LoadCSVAfterFetch(csvCache, FetchFailure, url)
           caught == IF request.rejected THEN app ELSE CompareCatch(app)
       IN  /\ csvCache' = loaded.cache
           /\ app' = [caught EXCEPT
                          !.requests = RequestsAfter(@, i, s, {}, TRUE),
                          !.failures = @ + 1]
    /\ UiFrame

\* The promise job of the first call whose two loads are done: compareVersions
\* continues after its await.
CompareContinues ==
    /\ ~NoPromiseJob
    /\ LET i == CHOOSE j \in ReadyRequests(app) :
                    \A k \in ReadyRequests(app) : j <= k
       IN  app' = CompareContinuation(
                      [app EXCEPT !.requests = WithoutRequest(@, i)],
                      app.requests[i])
    /\ UNCHANGED csvCache
    /\ UiFrame

UiNext ==
    \/ IndexLoaded
    \/ IndexFailed
    \/ \E platform \in {UiPlatform1, UiPlatform2} :
           UserSelectsPlatform(platform)
    \/ \E version \in UiVersions : UserSelectsBaseline(version)
    \/ \E version \in UiVersions : UserSelectsCompare(version)
    \/ TimerFires
    \/ \E i \in 1..MaxRequests, s \in {1, 2} : LoadSucceeds(i, s)
    \/ \E i \in 1..MaxRequests, s \in {1, 2} : LoadFails(i, s)
    \/ CompareContinues

SpecUi == UiInit /\ [][UiNext]_vars

----------------------------------------------------------------------------
(* DataProcessor.generateSummary *)

\* comparisons.forEach(comp => ...) over the entries from position first to
\* position n, on a summary whose totalFiles is already set.
RECURSIVE SummaryOf(_, _, _)
SummaryOf(list, first, n) ==
    IF n < first
    THEN [totalFiles      |-> Len(list),
          unchanged       |-> 0,
          increased       |-> 0,
          decreased       |-> 0,
          totalSizeChange |-> 0,
          largestIncrease |-> {},
          largestDecrease |-> {}]
    ELSE LET before == SummaryOf(list, first, n - 1)
             comp   == list[n]
             added  == [before EXCEPT
                           !.totalSizeChange = @ + comp.difference]
         IN  IF comp.changeType = "unchanged"
             THEN [added EXCEPT !.unchanged = @ + 1]
             ELSE IF comp.changeType = "increased"
             THEN [added EXCEPT
                      !.increased = @ + 1,
                      !.largestIncrease =
                          IF \/ @ = {}
                             \/ \E l \in @ : comp.difference > l.difference
                          THEN {comp} ELSE @]
             ELSE IF comp.changeType = "decreased"
             THEN [added EXCEPT
                      !.decreased = @ + 1,
                      !.largestDecrease =
                          IF \/ @ = {}
                             \/ \E l \in @ : comp.difference < l.difference
                          THEN {comp} ELSE @]
             ELSE added

\* generateSummary leaving the first entry out of the loop.
generateSummarySkippingFirst(list) == SummaryOf(list, 2, Len(list))

\* DataProcessor.generateSummary
generateSummary(list) == SummaryOf(list, 1, Len(list))

\* Entries of a comparison list, as far as generateSummary reads them.
SummaryEntries ==
    [compileUnit : {<<"a">>, <<"b">>},
     difference  : (0 - MaxSummaryDifference)..MaxSummaryDifference,
     changeType  : {"unchanged", "increased", "decreased"}]

SumInit ==
    /\ sumComparisons \in SeqsUpTo(SummaryEntries, MaxSummaryEntries)
    /\ summary = <<>>
    /\ sumDone = FALSE
    /\ CmpIdle /\ NormIdle /\ VerIdle /\ EnvIdle /\ TlIdle /\ HdrIdle
    /\ CsvIdle /\ ThrIdle /\ UiIdle /\ MoreIdle

\* displaySummary calls generateSummary on the list.
GenerateSummary ==
    /\ ~sumDone
    /\ summary' = generateSummary(sumComparisons)
    /\ sumDone' = TRUE
    /\ UNCHANGED <<sumComparisons, cmpVars, normVars, verVars, envVars,
                   tlVars, hdrVars, csvVars, thrVars, uiVars, moreVars>>

SumNext == GenerateSummary

SpecSum == SumInit /\ [][SumNext]_vars

----------------------------------------------------------------------------
(* DefoldDashboard: the four report files, the charts and the click on a   *)
(* data point.  A row of a report is a sequence of [key, value] records:   *)
(* its VERSION and one cell per platform column; the keys are the column   *)
(* names, the values the text of the cells.  The version dropdown of a     *)
(* chart is not part of the model: every chart shows its default range.    *)

\* parseFloat(s): an optional sign, decimal digits and an optional fraction;
\* NaN when there is no digit.  (No cell or version carries an exponent.)
parseFloat(s) ==
    LET negative == s # <<>> /\ s[1] = "-"
        unsigned == IF s # <<>> /\ s[1] \in {"-", "+"} THEN Tail(s) ELSE s
        whole    == DigitPrefix(unsigned)
        rest     == SubSeq(unsigned, Len(whole) + 1, Len(unsigned))
        fraction == IF rest # <<>> /\ rest[1] = "."
                    THEN DigitPrefix(Tail(rest)) ELSE <<>>
    IN  [isNaN    |-> whole = <<>> /\ fraction = <<>>,
         negative |-> negative,
         digits   |-> whole \o fraction]

\* parseFloat(value) > 0
ParsesPositive(s) ==
    LET number == parseFloat(s)
    IN  /\ ~number.isNaN
        /\ ~number.negative
        /\ \E i \in 1..Len(number.digits) : number.digits[i] # "0"

\* The string 'VERSION' as a cell value.
VersionWord == <<"V", "E", "R", "S", "I", "O", "N">>

\* row.VERSION
VersionOfRow(row) ==
    IF MapGet(row, "VERSION") = {} THEN <<>>
    ELSE CHOOSE cell \in MapGet(row, "VERSION") : TRUE

\* values.some(value => value !== 'VERSION' && parseFloat(value) > 0): the
\* test reads the values of the row, its VERSION cell among them.
SomeValuePositive(row) ==
    \E i \in 1..Len(row) :
        row[i].value # VersionWord /\ ParsesPositive(row[i].value)

\* Array.prototype.sort(this.compareVersions): a stable sort, by insertion.
RECURSIVE DashInsertVersion(_, _)
DashInsertVersion(sorted, version) ==
    IF sorted = <<>> THEN <<version>>
    ELSE IF DashboardCompareVersions(sorted[Len(sorted)], version) <= 0
    THEN Append(sorted, version)
    ELSE Append(DashInsertVersion(SubSeq(sorted, 1, Len(sorted) - 1),
                                  version),
                sorted[Len(sorted)])

RECURSIVE DashSortVersions(_)
DashSortVersions(versions) ==
    IF versions = <<>> THEN <<>>
    ELSE DashInsertVersion(
             DashSortVersions(SubSeq(versions, 1, Len(versions) - 1)),
             versions[Len(versions)])

\* DefoldDashboard.filterDataFromVersion
filterDataFromVersion(data, startVersion) ==
    LET AtOrAfter(row) ==
            DashboardCompareVersions(VersionOfRow(row), startVersion) >= 0
    IN  SelectSeq(data, AtOrAfter)

\* The number of versions a chart starts with.
DefaultVersionCount == 20

\* DefoldDashboard.calculateDefaultVersion
calculateDefaultVersion(cache, csvFile, minimumVersion) ==
    IF ~MapHas(cache, csvFile) THEN minimumVersion
    ELSE LET rawData  == CHOOSE d \in MapGet(cache, csvFile) : TRUE
             withData == SelectSeq(rawData, SomeValuePositive)
             versions == DashSortVersions(
                             [i \in 1..Len(withData) |->
                                 VersionOfRow(withData[i])])
             AtOrAfterMinimum(version) ==
                 DashboardCompareVersions(version, minimumVersion) >= 0
             validVersions == SelectSeq(versions, AtOrAfterMinimum)
         IN  IF Len(validVersions) > DefaultVersionCount
             THEN validVersions[Len(validVersions) - DefaultVersionCount + 1]
             ELSE minimumVersion


DashPlatforms ==
    <<"arm64-ios", "arm64-android", "armv7-android", "x86_64-macos",
      "js-web", "wasm-web", "x86_64-linux", "x86-win32", "x86_64-win32",
      "arm64-macos">>

EditorPlatforms ==
    <<"x86_64-macos", "x86_64-win32", "x86_64-linux", "arm64-macos">>

\* DefoldDashboard.formatPlatformName
formatPlatformName(platform) ==
    CASE platform = "arm64-ios"     -> "ARM64 iOS"
      [] platform = "arm64-android" -> "ARM64 Android"
      [] platform = "armv7-android" -> "ARMv7 Android"
      [] platform = "x86_64-macos"  -> "x86_64 macOS"
      [] platform = "js-web"        -> "JS Web"
      [] platform = "wasm-web"      -> "WASM Web"
      [] platform = "x86_64-linux"  -> "x86_64 Linux"
      [] platform = "x86-win32"     -> "x86 Win32"
      [] platform = "x86_64-win32"  -> "x86_64 Win32"
      [] platform = "arm64-macos"   -> "ARM64 macOS"
      [] OTHER                      -> platform

\* DefoldDashboard.findPlatformKey: the key of a formatted name, optional.
findPlatformKey(platformName, platforms) ==
    LET reverseNameMap ==
            CASE platformName = "ARM64 iOS"     -> {"arm64-ios"}
              [] platformName = "ARM64 Android" -> {"arm64-android"}
              [] platformName = "ARMv7 Android" -> {"armv7-android"}
              [] platformName = "x86_64 macOS"  -> {"x86_64-macos"}
              [] platformName = "JS Web"        -> {"js-web"}
              [] platformName = "WASM Web"      -> {"wasm-web"}
              [] platformName = "x86_64 Linux"  -> {"x86_64-linux"}
              [] platformName = "x86 Win32"     -> {"x86-win32"}
              [] platformName = "x86_64 Win32"  -> {"x86_64-win32"}
              [] platformName = "ARM64 macOS"   -> {"arm64-macos"}
              [] OTHER                          -> {}
        found == {i \in 1..Len(platforms) :
                     formatPlatformName(platforms[i]) = platformName}
    IN  IF reverseNameMap # {} THEN reverseNameMap
        ELSE IF found = {} THEN {}
        ELSE {platforms[CHOOSE i \in found : \A j \in found : i <= j]}

\* editorPlatformMap[platformKey] || platformKey
EditorPlatformOf(platformKey) ==
    CASE platformKey = "x86_64-win32" -> "editor-win32"
      [] platformKey = "x86_64-linux" -> "editor-x86_64-linux"
      [] platformKey = "x86_64-macos" -> "editor-x86_64-macos"
      [] platformKey = "arm64-macos"  -> "editor-arm64-macos"
      [] OTHER                        -> platformKey

\* DefoldDashboard.getCsvFileForPlatform
getCsvFileForPlatform(cache, platformKey) ==
    IF platformKey \in {"x86_64-macos", "x86_64-win32", "x86_64-linux",
                        "arm64-macos"}
    THEN "editor_report.csv"
    ELSE IF MapHas(cache, "bundle_report.csv") THEN "bundle_report.csv"
    ELSE "engine_report.csv"

\* DefoldDashboard.getAllVersionsForPlatform
getAllVersionsForPlatform(cache, platformKey, containerId) ==
    LET csvFile == IF containerId = "bob-chart" \/ platformKey = "bob.jar"
                   THEN "bob_report.csv"
                   ELSE getCsvFileForPlatform(cache, platformKey)
        rawData == CHOOSE d \in MapGet(cache, csvFile) : TRUE
        NonEmpty(version) == version # <<>>
    IN  IF MapHas(cache, csvFile)
        THEN SelectSeq([i \in 1..Len(rawData) |-> VersionOfRow(rawData[i])],
                       NonEmpty)
        ELSE <<>>

\* What a click leaves behind: nothing, the alert, or the window opened on
\* size-analyzer/?platform=..&from=..&to=..
NothingOpened == [kind |-> "nothing"]

AlertShown == [kind |-> "alert"]

WindowOpened(platformKey, fromVersion, toVersion) ==
    [kind |-> "window", platform |-> platformKey,
     fromVersion |-> fromVersion, toVersion |-> toVersion]

\* DefoldDashboard.handleChartClick on the first point of the event.
handleChartClick(cache, point, platforms, containerId) ==
    LET clickedVersion == point.x
        found == findPlatformKey(point.name, platforms)
        forBob == IF containerId = "bob-chart" THEN {"bob.jar"} ELSE found
        platformKey ==
            IF containerId = "editor-chart"
            THEN {EditorPlatformOf(k) : k \in forBob}
            ELSE forBob
    IN  IF platformKey = {} \/ clickedVersion = <<>> THEN NothingOpened
        ELSE LET key == CHOOSE k \in platformKey : TRUE
                 allVersions ==
                     getAllVersionsForPlatform(cache, key, containerId)
                 versionIndex == IndexOf(allVersions, clickedVersion)
             IN  IF versionIndex > 1
                 THEN WindowOpened(key, allVersions[versionIndex - 1],
                                   clickedVersion)
                 ELSE AlertShown

\* The configuration create*Chart stores for a chart.
ChartIds == {"bundle-chart", "engine-chart", "editor-chart", "bob-chart"}

V_1_2_166 == <<"1", ".", "2", ".", "1", "6", "6">>

V_1_3_6 == <<"1", ".", "3", ".", "6">>

ChartConfig(containerId) ==
    CASE containerId = "bundle-chart" ->
             [csvFile |-> "bundle_report.csv", platforms |-> DashPlatforms,
              minimumVersion |-> V_1_2_166]
      [] containerId = "engine-chart" ->
             [csvFile |-> "engine_report.csv", platforms |-> DashPlatforms,
              minimumVersion |-> V_1_2_166]
      [] containerId = "editor-chart" ->
             [csvFile |-> "editor_report.csv", platforms |-> EditorPlatforms,
              minimumVersion |-> V_1_3_6]
      [] containerId = "bob-chart" ->
             [csvFile |-> "bob_report.csv", platforms |-> <<"x86_64-macos">>,
              minimumVersion |-> V_1_2_166]

\* parseFloat(row[platform]) || 0 is above 0
HasSize(row, platform) ==
    \E cell \in MapGet(row, platform) : ParsesPositive(cell)

\* DefoldDashboard.createChart: the versions on the x axis and the names of
\* the traces, or no chart when there is no data.
createChart(data, platforms) ==
    IF data = <<>> THEN {}
    ELSE LET WithData(platform) ==
                 \E i \in 1..Len(data) : HasSize(data[i], platform)
             shown == SelectSeq(platforms, WithData)
         IN  {[x      |-> [i \in 1..Len(data) |-> VersionOfRow(data[i])],
               traces |-> [i \in 1..Len(shown) |->
                              formatPlatformName(shown[i])]]}

\* createBundleChart, createEngineChart, createEditorChart, createBobChart
CreateChartFor(cache, containerId) ==
    LET config == ChartConfig(containerId)
        rawData == CHOOSE d \in MapGet(cache, config.csvFile) : TRUE
        defaultVersion ==
            calculateDefaultVersion(cache, config.csvFile,
                                    config.minimumVersion)
    IN  createChart(filterDataFromVersion(rawData, defaultVersion),
                    config.platforms)

\* The report files: versions 2.1 .. 2.MaxDashVersions, of which a file may
\* lack some rows and may hold some rows whose cells are all zero.
MaxDashVersions == 22

DecimalDigits == <<"0", "1", "2", "3", "4", "5", "6", "7", "8", "9">>

DecimalString(n) ==
    IF n < 10 THEN <<DecimalDigits[n + 1]>>
    ELSE <<DecimalDigits[(n \div 10) + 1], DecimalDigits[(n % 10) + 1]>>

DashVersion(k) == <<"2", ".">> \o DecimalString(k)

DashFiles ==
    <<"bundle_report.csv", "engine_report.csv", "editor_report.csv",
      "bob_report.csv">>

FullReport == [dropped |-> {}, zero |-> {}]

OneVersionMissing == [dropped |-> {MaxDashVersions - 1}, zero |-> {}]

OneVersionWithoutData == [dropped |-> {}, zero |-> {MaxDashVersions - 1}]

ShortReport ==
    [dropped |-> 1..(MaxDashVersions - DefaultVersionCount), zero |-> {}]

DashShapes(filename) ==
    CASE filename = "bundle_report.csv" ->
             {FullReport, OneVersionMissing, OneVersionWithoutData,
              ShortReport}
      [] filename = "engine_report.csv" -> {FullReport, OneVersionMissing}
      [] filename = "editor_report.csv" ->
             {FullReport, OneVersionMissing, ShortReport}
      [] filename = "bob_report.csv" -> {FullReport, OneVersionWithoutData}

DashInputs ==
    {shapes \in [1..Len(DashFiles) ->
                    UNION {DashShapes(DashFiles[n]) : n \in 1..Len(DashFiles)}] :
        \A n \in 1..Len(DashFiles) : shapes[n] \in DashShapes(DashFiles[n])}

DashColumns(filename) ==
    IF filename \in {"bundle_report.csv", "engine_report.csv"}
    THEN <<"arm64-ios", "x86_64-macos">>
    ELSE <<"x86_64-macos">>

\* The rows parseCSV returns for a file of the given shape.
ParsedReport(filename, shape) ==
    LET Kept(k) == k \notin shape.dropped
        kept    == SelectSeq([k \in 1..MaxDashVersions |-> k], Kept)
        columns == DashColumns(filename)
        ReportRow(k) ==
            <<[key |-> "VERSION", value |-> DashVersion(k)]>>
            \o [c \in 1..Len(columns) |->
                   [key   |-> columns[c],
                    value |-> IF k \in shape.zero THEN <<"0">>
                              ELSE <<"5">>]]
    IN  [i \in 1..Len(kept) |-> ReportRow(kept[i])]

\* DefoldDashboard.loadCSV on a cache miss: the rows that pass the filter
\* are cached.
DashLoadCSV(cache, filename, shape) ==
    IF MapHas(cache, filename) THEN cache
    ELSE MapSet(cache, filename,
                SelectSeq(ParsedReport(filename, shape), SomeValuePositive))

\* DefoldDashboard.loadAllData over the first n files.
RECURSIVE LoadAllData(_, _)
LoadAllData(shapes, n) ==
    IF n = 0 THEN <<>>
    ELSE DashLoadCSV(LoadAllData(shapes, n - 1), DashFiles[n], shapes[n])

DashInit ==
    /\ dashCache = <<>>
    /\ dashCharts = [c \in ChartIds |-> {}]
    /\ dashConfigs = <<>>
    /\ dashStatus = "loading"
    /\ dashClick = {}
    /\ dashOpened = NothingOpened
    /\ CmpIdle /\ NormIdle /\ VerIdle /\ EnvIdle /\ TlIdle /\ HdrIdle
    /\ CsvIdle /\ ThrIdle /\ UiIdle /\ SumIdle /\ RngIdle

DashFrame ==
    UNCHANGED <<cmpVars, normVars, verVars, envVars, tlVars, hdrVars,
                csvVars, thrVars, uiVars, sumVars, rngVars>>

\* DefoldDashboard.init when every file is fetched: the files are cached in
\* turn and the four charts are created.
DashboardLoaded(shapes) ==
    /\ dashStatus = "loading"
    /\ LET cache == LoadAllData(shapes, Len(DashFiles))
       IN  /\ dashCache' = cache
           /\ dashConfigs' =
                  [c \in ChartIds |->
                      [csvFile        |-> ChartConfig(c).csvFile,
                       platforms      |-> ChartConfig(c).platforms,
                       defaultVersion |->
                           calculateDefaultVersion(
                               cache, ChartConfig(c).csvFile,
                               ChartConfig(c).minimumVersion)]]
           /\ dashCharts' = [c \in ChartIds |-> CreateChartFor(cache, c)]
    /\ dashStatus' = "loaded"
    /\ UNCHANGED <<dashClick, dashOpened>>
    /\ DashFrame

\* DefoldDashboard.init when the fetch of file n fails: the files before it
\* are cached, no chart is created and the error is shown.
DashboardFailed(shapes, n) ==
    /\ dashStatus = "loading"
    /\ dashCache' = LoadAllData(shapes, n - 1)
    /\ dashStatus' = "error"
    /\ UNCHANGED <<dashCharts, dashConfigs, dashClick, dashOpened>>
    /\ DashFrame

\* The plotly_click handler of a chart on one of its points.
ChartClicked(containerId, i, t) ==
    /\ dashStatus = "loaded"
    /\ \E chart \in dashCharts[containerId] :
           /\ i \in 1..Len(chart.x)
           /\ t \in 1..Len(chart.traces)
           /\ LET point == [x |-> chart.x[i], name |-> chart.traces[t]]
              IN  /\ dashClick' = {[containerId |-> containerId,
                                    point |-> point]}
                  /\ dashOpened' =
                         handleChartClick(dashCache, point,
                                          dashConfigs[containerId].platforms,
                                          containerId)
    /\ UNCHANGED <<dashCache, dashCharts, dashConfigs, dashStatus>>
    /\ DashFrame

DashNext ==
    \/ \E shapes \in DashInputs : DashboardLoaded(shapes)
    \/ \E shapes \in DashInputs,
          n \in 1..Len(DashFiles) : DashboardFailed(shapes, n)
    \/ \E containerId \in ChartIds, i \in 1..MaxDashVersions,
          t \in 1..Len(DashPlatforms) : ChartClicked(containerId, i, t)

SpecDash == DashInit /\ [][DashNext]_vars

----------------------------------------------------------------------------
(* Properties of the comparator (checked under SpecCmp) *)

Compared == cmpPc \in {"compared", "recompared"}

KeySet(m) == {m[i].key : i \in 1..Len(m)}

MoveIndexes == 1..Len(matchedMoves)

EntryIndexes == 1..Len(comparisons)

\* The keys of the two maps built from the rows, before move detection.
BeforeKeys == {normalizeFilePath(data1[i][FilenameColumn]) : i \in 1..Len(data1)}
AfterKeys  == {normalizeFilePath(data2[i][FilenameColumn]) : i \in 1..Len(data2)}

\* The text after the last "/" of a key.
RECURSIVE LastSegment(_)
LastSegment(p) ==
    IF p = <<>> \/ p[Len(p)] = "/" THEN <<>>
    ELSE LastSegment(SubSeq(p, 1, Len(p) - 1)) \o <<p[Len(p)]>>

\* The text before the last "/" of a key, "/" when there is none.
RECURSIVE DirectoryOf(_)
DirectoryOf(p) ==
    IF p = <<>> THEN <<"/">>
    ELSE IF p[Len(p)] = "/"
         THEN (IF Len(p) = 1 THEN <<"/">> ELSE SubSeq(p, 1, Len(p) - 1))
         ELSE DirectoryOf(SubSeq(p, 1, Len(p) - 1))

\* The number a metric cell stands for: its value when it is a string of
\* digits, 0 otherwise.
CellNumber(c) ==
    IF c # <<>> /\ \A i \in 1..Len(c) : c[i] \in DigitChars
    THEN DecimalValue(c) ELSE 0

\* The metric value of key k in a snapshot: that of the last row of the key.
SnapshotSize(data, k) ==
    LET rowsOfKey == {i \in 1..Len(data) :
                          normalizeFilePath(data[i][FilenameColumn]) = k}
        last      == CHOOSE i \in rowsOfKey : \A j \in rowsOfKey : j <= i
    IN  CellNumber(data[last][Metric])

\* Similar sizes: both 0, or both non-zero and within 10% of their average.
SimilarSizes(s1, s2) ==
    \/ s1 = 0 /\ s2 = 0
    \/ s1 # 0 /\ s2 # 0 /\ 20 * Abs(s1 - s2) <= s1 + s2

\* C1: move matching is one-to-one: no before-key occurs in two recorded
\* moves and no after-key occurs in two recorded moves.
MoveMatchingOneToOne ==
    Compared =>
        \A i, j \in MoveIndexes :
            i # j => /\ matchedMoves[i].oldKey # matchedMoves[j].oldKey
                     /\ matchedMoves[i].newKey # matchedMoves[j].newKey

\* C2: for every entry of the output, changeType is "unchanged" if and only
\* if |difference| <= threshold; otherwise it is "increased" when the
\* difference is positive and "decreased" when it is negative.
ChangeTypeMatchesThreshold ==
    Compared =>
        \A i \in EntryIndexes :
            LET e == comparisons[i]
            IN  /\ e.changeType = "unchanged"
                       <=> Abs(e.difference) <= changeThreshold
                /\ e.changeType # "unchanged" =>
                       \/ e.difference > 0 /\ e.changeType = "increased"
                       \/ e.difference < 0 /\ e.changeType = "decreased"

\* An output with all three classifications, one of them unchanged with
\* |difference| equal to a positive threshold.
AllChangeTypesSeen ==
    /\ Compared
    /\ {comparisons[i].changeType : i \in EntryIndexes}
           = {"unchanged", "increased", "decreased"}
    /\ \E i \in EntryIndexes :
           /\ comparisons[i].changeType = "unchanged"
           /\ Abs(comparisons[i].difference) = changeThreshold
           /\ changeThreshold > 0

\* C4: for every recorded move (oldKey, newKey) the output has exactly one
\* entry keyed by newKey, with size1 the before snapshot's size of oldKey,
\* size2 the after snapshot's size of newKey, and moveInfo set (isMoved,
\* displayName "<basename> (moved from <dir(old)> to <dir(new)>)"); no entry
\* is keyed by oldKey.
MovesMergedIntoOneEntry ==
    Compared =>
        \A m \in MoveIndexes :
            LET move == matchedMoves[m]
                hits == {i \in EntryIndexes :
                             comparisons[i].compileUnit = move.newKey}
            IN  /\ Cardinality(hits) = 1
                /\ \A i \in hits :
                       /\ comparisons[i].size1 = SnapshotSize(data1, move.oldKey)
                       /\ comparisons[i].size2 = SnapshotSize(data2, move.newKey)
                       /\ comparisons[i].isMoved = {TRUE}
                       /\ comparisons[i].moveInfo # {}
                       /\ comparisons[i].displayName =
                              {LastSegment(move.oldKey)
                                   \o <<" (moved from ">> \o DirectoryOf(move.oldKey)
                                   \o <<" to ">> \o DirectoryOf(move.newKey)
                                   \o <<")">>}
                /\ \A i \in EntryIndexes :
                       comparisons[i].compileUnit # move.oldKey

\* C5: every recorded move pairs two keys of equal basename and of similar
\* sizes; a zero size is never matched to a non-zero size.
MovesPairSimilarEntries ==
    Compared =>
        \A m \in MoveIndexes :
            LET move == matchedMoves[m]
                s1   == SnapshotSize(data1, move.oldKey)
                s2   == SnapshotSize(data2, move.newKey)
            IN  /\ LastSegment(move.oldKey) = LastSegment(move.newKey)
                /\ move.oldKey \in BeforeKeys \ AfterKeys
                /\ move.newKey \in AfterKeys \ BeforeKeys
                /\ move.oldValue.size = s1 /\ move.newValue.size = s2
                /\ SimilarSizes(s1, s2)
                /\ (s1 = 0) <=> (s2 = 0)

\* A move of two different non-zero sizes is recorded, while an after-only
\* key of another basename and one of a dissimilar size stay unmatched.
MoveOfDifferentSizesSeen ==
    /\ Compared
    /\ \E m \in MoveIndexes :
           /\ matchedMoves[m].oldValue.size # matchedMoves[m].newValue.size
           /\ matchedMoves[m].oldValue.size > 0
    /\ \E k \in AfterKeys \ BeforeKeys :
           \A m \in MoveIndexes : matchedMoves[m].newKey # k

\* C6: the keys of the output are the union of the keys of the two merged
\* maps, and no key is in two output entries.
OutputKeysAreUnionOfMergedKeys ==
    Compared =>
        /\ {comparisons[i].compileUnit : i \in EntryIndexes}
               = KeySet(mergedData1) \cup KeySet(mergedData2)
        /\ \A i, j \in EntryIndexes :
               comparisons[i].compileUnit = comparisons[j].compileUnit => i = j

\* An output with a key of the merged before map only, one of the merged
\* after map only and one of both, after a move was merged.
KeysOfBothSidesSeen ==
    /\ Compared
    /\ KeySet(mergedData1) \ KeySet(mergedData2) # {}
    /\ KeySet(mergedData2) \ KeySet(mergedData1) # {}
    /\ KeySet(mergedData1) \cap KeySet(mergedData2) # {}
    /\ matchedMoves # <<>>


\* The size held for key k in a merged map, 0 when the map lacks the key.
MergedSize(m, k) ==
    LET at == {i \in 1..Len(m) : m[i].key = k}
    IN  IF at = {} THEN 0 ELSE m[CHOOSE i \in at : TRUE].value.size

\* C8: for every output entry, size1 and size2 are the sizes of its key in
\* the merged before and after maps, 0 for a key the map lacks, and
\* difference = size2 - size1; the size of a key that is in no move is the
\* number of its metric cell, 0 for a cell that is not a number; a key of the
\* before snapshot only that is in no move has size2 = 0 and
\* difference = -size1, and is "decreased" when threshold < size1.
SizesComeFromMergedMaps ==
    Compared =>
        \A i \in EntryIndexes :
            LET e     == comparisons[i]
                k     == e.compileUnit
                moved == \E m \in MoveIndexes :
                             k \in {matchedMoves[m].oldKey, matchedMoves[m].newKey}
            IN  /\ e.size1 = MergedSize(mergedData1, k)
                /\ e.size2 = MergedSize(mergedData2, k)
                /\ e.difference = e.size2 - e.size1
                /\ ~moved /\ k \in BeforeKeys => e.size1 = SnapshotSize(data1, k)
                /\ ~moved /\ k \notin BeforeKeys => e.size1 = 0
                /\ ~moved /\ k \in AfterKeys => e.size2 = SnapshotSize(data2, k)
                /\ ~moved /\ k \notin AfterKeys => e.size2 = 0
                /\ ~moved /\ k \in BeforeKeys \ AfterKeys =>
                       /\ e.size2 = 0
                       /\ e.difference = -e.size1
                       /\ changeThreshold < e.size1 => e.changeType = "decreased"

\* A key of the before snapshot only, in no move, is reported as decreased
\* by its whole size, beside a key whose cell is not a number.
DisappearedKeySeen ==
    /\ Compared
    /\ \E i \in EntryIndexes :
           /\ comparisons[i].compileUnit \in BeforeKeys \ AfterKeys
           /\ \A m \in MoveIndexes :
                  matchedMoves[m].oldKey # comparisons[i].compileUnit
           /\ comparisons[i].size1 > changeThreshold
           /\ comparisons[i].size2 = 0
           /\ comparisons[i].changeType = "decreased"
    /\ \E j \in 1..Len(data2) : data2[j][Metric] = <<"-">>

\* C9: the output is sorted in non-increasing order of |difference|.
SortedByAbsDifference ==
    Compared =>
        \A i \in EntryIndexes :
            i < Len(comparisons) =>
                Abs(comparisons[i].difference)
                    >= Abs(comparisons[i + 1].difference)

\* An output of three entries or more in which a negative difference comes
\* before a positive one of smaller size.
MixedSignsSortedSeen ==
    /\ Compared
    /\ Len(comparisons) >= 3
    /\ \E i \in EntryIndexes :
           /\ i < Len(comparisons)
           /\ comparisons[i].difference < 0
           /\ comparisons[i + 1].difference > 0
           /\ Abs(comparisons[i].difference) > comparisons[i + 1].difference

\* The entries of an output as a set.
EntrySet(cs) == {cs[i] : i \in 1..Len(cs)}

\* C10: a second run on the same snapshots, metric, threshold and identity
\* column gives an output equal, as a set of entries, to that of the run
\* before it, and a run leaves the rows of both snapshots as they were.
RerunGivesSameOutput ==
    cmpPc = "recompared" =>
        /\ EntrySet(comparisons) = EntrySet(previous.comparisons)
        /\ Len(comparisons) = Len(previous.comparisons)
        /\ data1 = previous.data1
        /\ data2 = previous.data2

\* A second run was made on two non-empty snapshots with a move between them.
RerunWithMoveSeen ==
    /\ cmpPc = "recompared"
    /\ data1 # <<>> /\ data2 # <<>>
    /\ matchedMoves # <<>>
    /\ Len(comparisons) >= 2

----------------------------------------------------------------------------
(* Properties of the path normalizer (checked under SpecNorm) *)

\* C3: path normalization is idempotent: normalizing a normalized path
\* gives the same path.
NormalizeIdempotent ==
    normSteps = 2 => renormalized = normalized

----------------------------------------------------------------------------
(* Properties of the version ordering (checked under SpecVer) *)

Sign(n) == IF n < 0 THEN -1 ELSE IF n > 0 THEN 1 ELSE 0

\* The components of a version as numbers.
Components(version) ==
    LET parts == Split(version, ".")
    IN  [i \in 1..Len(parts) |-> DecimalValue(parts[i])]

\* The components padded with trailing zeros to n components.
Padded(version, n) ==
    LET c == Components(version)
    IN  [i \in 1..n |-> IF i <= Len(c) THEN c[i] ELSE 0]

\* The sign of the component-wise comparison of two sequences of one length.
RECURSIVE LexSign(_, _)
LexSign(a, b) ==
    IF a = <<>> THEN 0
    ELSE IF Head(a) # Head(b) THEN Sign(Head(a) - Head(b))
    ELSE LexSign(Tail(a), Tail(b))

PaddedSign(va, vb) ==
    LET n == Max(Len(Components(va)), Len(Components(vb)))
    IN  LexSign(Padded(va, n), Padded(vb, n))

V_1_10_0  == <<"1", ".", "1", "0", ".", "0">>
V_1_2_0   == <<"1", ".", "2", ".", "0">>
V_1_2     == <<"1", ".", "2">>
V_2_0     == <<"2", ".", "0">>
V_1_9_9   == <<"1", ".", "9", ".", "9">>

\* C7: compareVersions (of the data processor and of the dashboard) is a
\* total preorder that agrees with the component-wise numeric comparison of
\* the versions padded with trailing zeros: its sign is reversed when its
\* arguments are swapped, it is transitive, it is 0 exactly when the padded
\* components are equal, and it orders 1.2.166 before 1.10.0, 1.2.0 equal to
\* 1.2 and 2.0 after 1.9.9.
VersionOrderIsTotalPreorder ==
    verDone =>
        /\ Sign(result12) = -Sign(result21)
        /\ Sign(result12) = PaddedSign(v1, v2)
        /\ result12 = 0 <=>
               LET n == Max(Len(Components(v1)), Len(Components(v2)))
               IN  Padded(v1, n) = Padded(v2, n)
        /\ dash12 = result12
        /\ \A v3 \in Versions :
               result12 <= 0 /\ compareVersions(v2, v3) <= 0
                   => compareVersions(v1, v3) <= 0
        /\ v1 = V_1_2_166 /\ v2 = V_1_10_0 => result12 < 0
        /\ v1 = V_1_2_0 /\ v2 = V_1_2 => result12 = 0
        /\ v1 = V_2_0 /\ v2 = V_1_9_9 => result12 > 0

\* 1.2.166 was compared with 1.10.0 and found older.
NumericOrderSeen ==
    /\ verDone
    /\ v1 = V_1_2_166 /\ v2 = V_1_10_0
    /\ result12 < 0 /\ result21 > 0

----------------------------------------------------------------------------
(* Properties of the timeline (checked under SpecTl) *)

TimelineReturned == tlPc = "returned"

\* The version strings the index lists for the timeline's platform.
IndexVersionStrings ==
    LET versions == CHOOSE x \in MapGet(analysisIndex, tlArgs.platform) : TRUE
    IN  [i \in 1..Len(versions) |-> versions[i].version]

\* The positions in the index of the versions of the selected range.
RangePositions ==
    {i \in 1..Len(IndexVersionStrings) :
        /\ PaddedSign(tlArgs.startVersion, IndexVersionStrings[i]) <= 0
        /\ PaddedSign(IndexVersionStrings[i], tlArgs.endVersion) <= 0}

SnapshotFailed(version) ==
    server[CsvUrl(tlArgs.platform, version)] = FetchFailure

\* The rows of a version's snapshot whose normalized identity, read in the
\* snapshot's own identity column, is the normalized target file.
RowsOfFile(version) ==
    LET rows == IF SnapshotFailed(version) THEN <<>>
                ELSE parseCSV(server[CsvUrl(tlArgs.platform, version)])
        identityColumn ==
            CHOOSE c \in getFilenameColumn(ObjectKeys(rows[1])) : TRUE
    IN  IF rows = <<>> THEN {}
        ELSE
        {i \in 1..Len(rows) :
            \E path \in MapGet(rows[i], identityColumn) :
                normalizeFilePath(path) = normalizeFilePath(tlArgs.fileName)}

\* The metric value of the file in a version's snapshot.
FileSize(version) ==
    LET rows == parseCSV(server[CsvUrl(tlArgs.platform, version)])
        first == CHOOSE i \in RowsOfFile(version) :
                     \A j \in RowsOfFile(version) : i <= j
    IN  CellNumber(CHOOSE c \in MapGet(rows[first], tlArgs.metricType) : TRUE)

\* C11: the timeline returned has exactly one point per version of the
\* selected range, in ascending version order; a point has exists = TRUE and
\* the file's metric value as its size when the version's snapshot has a row
\* of the target file, and exists = FALSE and size 0 when the file is absent
\* or the snapshot failed to load.
TimelinePointsFollowSnapshots ==
    TimelineReturned =>
        /\ Len(timeline) = Cardinality(RangePositions)
        /\ {timeline[i].version : i \in 1..Len(timeline)}
               = {IndexVersionStrings[i] : i \in RangePositions}
        /\ \A i, j \in 1..Len(timeline) :
               i < j => PaddedSign(timeline[i].version,
                                   timeline[j].version) <= 0
        /\ \A i \in 1..Len(timeline) :
               LET point == timeline[i]
               IN  IF SnapshotFailed(point.version)
                      \/ RowsOfFile(point.version) = {}
                   THEN point.exists = FALSE /\ point.size = 0
                   ELSE /\ point.exists = TRUE
                        /\ point.size = FileSize(point.version)

\* C12: both shapes of the index are accepted: getVersionsForPlatform gives
\* the list of version strings whichever the shape of the entries, and
\* getFileTimeline does not fail on either.
BothIndexShapesAccepted ==
    /\ getVersionsForPlatform(analysisIndex, tlArgs.platform)
           = [i \in 1..Len(IndexVersionStrings) |->
                 VersionString(IndexVersionStrings[i])]
    /\ tlPc # "rejected"

----------------------------------------------------------------------------
(* Properties of the header row (checked under SpecHdr) *)

\* Two names are the same up to the case of their letters.
SameNameIgnoringCase(a, b) ==
    /\ Len(a) = Len(b)
    /\ \A i \in 1..Len(a) :
           \/ a[i] = b[i]
           \/ \E k \in 1..Len(UpperChars) :
                  {a[i], b[i]} = {UpperChars[k], LowerChars[k]}

\* The positions of the headers that name the identity column.
IdentityNamed ==
    {i \in 1..Len(hdrHeaders) :
        \/ SameNameIgnoringCase(Trim(hdrHeaders[i]), CompileunitsName)
        \/ SameNameIgnoringCase(Trim(hdrHeaders[i]), FilenameName)}

\* The position of the identity column: the first header so named, the
\* first header when none is.
IdentityPosition ==
    IF IdentityNamed = {} THEN 1
    ELSE CHOOSE i \in IdentityNamed : \A j \in IdentityNamed : i <= j

\* The header names, trimmed, without the identity column.
HeadersWithoutIdentity ==
    LET others == {i \in 1..Len(hdrHeaders) : i # IdentityPosition}
        Nth(n) == CHOOSE i \in others :
                      Cardinality({j \in others : j < i}) = n - 1
    IN  [n \in 1..Cardinality(others) |-> Trim(hdrHeaders[Nth(n)])]

\* C13: the metric columns are all headers except the identity column, in
\* header order, also when no header names the identity column and when
\* several do.
MetricsAreHeadersWithoutIdentity ==
    hdrDone => hdrMetrics = HeadersWithoutIdentity

\* C14: the identity column is the first header whose trimmed, lower-cased
\* name is "compileunits" or "filename" (returned trimmed), and the first
\* header as it is when there is none.
FilenameColumnIsFirstNamed ==
    hdrDone /\ hdrHeaders # <<>> =>
        hdrFilenameColumn =
            IF IdentityNamed = {} THEN {hdrHeaders[1]}
            ELSE {Trim(hdrHeaders[IdentityPosition])}

\* The calls were made on a header row with two identity names after a
\* metric name, the first of them in capitals and with a blank.
SecondOfThreeHeadersSeen ==
    /\ hdrDone
    /\ Len(hdrHeaders) = 3
    /\ hdrHeaders[1] = VmsizeName
    /\ hdrHeaders[2] = <<"F", "I", "L", "E", "N", "A", "M", "E", " ">>
    /\ hdrHeaders[3] = CompileunitsName
    /\ hdrFilenameColumn = {<<"F", "I", "L", "E", "N", "A", "M", "E">>}

----------------------------------------------------------------------------
(* Properties of the parser (checked under SpecCsv) *)

\* The lines of the text without the blanks around it.
RECURSIVE LinesOf(_)
LinesOf(s) ==
    IF \A i \in 1..Len(s) : s[i] # "\n" THEN <<s>>
    ELSE LET i == CHOOSE j \in 1..Len(s) :
                      s[j] = "\n" /\ \A k \in 1..(j - 1) : s[k] # "\n"
         IN  <<SubSeq(s, 1, i - 1)>> \o LinesOf(SubSeq(s, i + 1, Len(s)))

TextLines == LinesOf(Trim(csvText))

\* The commas of a line that are outside double quotes: those with an even
\* number of quote characters before them.
SeparatorsOf(l) ==
    {i \in 1..Len(l) :
        /\ l[i] = ","
        /\ Cardinality({j \in 1..(i - 1) : l[j] = "\""}) % 2 = 0}

FieldCount(l) == Cardinality(SeparatorsOf(l)) + 1

\* The n-th field of a line: the text between its separators, without the
\* quote characters and the blanks around it.
FieldOf(l, n) ==
    LET Before(i) == Cardinality({j \in SeparatorsOf(l) : j < i})
        chars == {i \in 1..Len(l) :
                     /\ i \notin SeparatorsOf(l)
                     /\ l[i] # "\""
                     /\ Before(i) = n - 1}
        Nth(k) == CHOOSE i \in chars : Cardinality({j \in chars : j < i}) = k - 1
    IN  Trim([k \in 1..Cardinality(chars) |-> l[Nth(k)]])

\* The header names: the header line cut at every comma.
HeaderCount == Cardinality({i \in 1..Len(TextLines[1]) : TextLines[1][i] = ","}) + 1

HeaderName(n) ==
    LET l == TextLines[1]
        Before(i) == Cardinality({j \in 1..(i - 1) : l[j] = ","})
        chars == {i \in 1..Len(l) : l[i] # "," /\ Before(i) = n - 1}
        Nth(k) == CHOOSE i \in chars : Cardinality({j \in chars : j < i}) = k - 1
    IN  Trim([k \in 1..Cardinality(chars) |-> l[Nth(k)]])

\* The data lines kept: those with as many fields as the header has columns.
KeptLines ==
    {i \in 2..Len(TextLines) : FieldCount(TextLines[i]) = HeaderCount}

KeptLine(n) ==
    CHOOSE i \in KeptLines : Cardinality({j \in KeptLines : j < i}) = n - 1

\* C15: parseCSV returns, in input order, one mapping per data line whose
\* field count equals the header's column count and drops every other line;
\* fields are cut at the commas outside double quotes and trimmed; the value
\* of a header name is the field of its (last) column; an empty text gives
\* an empty result.
ParsedRowsAreWellFormedLines ==
    csvDone =>
        /\ Len(csvRows) = Cardinality(KeptLines)
        /\ \A n \in 1..Len(csvRows) :
               /\ {csvRows[n][k].key : k \in 1..Len(csvRows[n])}
                      = {HeaderName(c) : c \in 1..HeaderCount}
               /\ \A k \in 1..Len(csvRows[n]) :
                      LET columns == {c \in 1..HeaderCount :
                                         HeaderName(c) = csvRows[n][k].key}
                          last == CHOOSE c \in columns :
                                      \A d \in columns : d <= c
                      IN  csvRows[n][k].value
                              = FieldOf(TextLines[KeptLine(n)], last)
        /\ csvText = <<>> => csvRows = <<>>

\* A text was parsed whose first data line has a comma inside quotes and is
\* kept with the comma in its field, and whose second data line has one
\* field too many and is dropped.
QuotedCommaKeptSeen ==
    /\ csvDone
    /\ csvText = <<"a", "\n", "\"", ",", "\"", "\n", ",">>
    /\ csvRows = <<(<<[key |-> <<"a">>, value |-> <<",">>]>>)>>

----------------------------------------------------------------------------
(* Properties of the threshold slider (checked under SpecThr) *)

\* An entry without its classification.
WithoutChangeType(c) == [c EXCEPT !.changeType = "any"]

\* C20: after the threshold alone was changed, the comparison has the same
\* keys in the same order with the same size1, size2, difference and
\* moveInfo as before: its entries differ at most in changeType.
ThresholdChangeKeepsDiff ==
    cmpPc = "rethresholded" =>
        /\ Len(comparisons) = Len(previous.comparisons)
        /\ \A i \in 1..Len(comparisons) :
               WithoutChangeType(comparisons[i])
                   = WithoutChangeType(previous.comparisons[i])

\* The threshold was changed on a comparison with a moved file, and an
\* entry changed its classification.
ReclassifiedWithMoveSeen ==
    /\ cmpPc = "rethresholded"
    /\ Len(comparisons) = Len(previous.comparisons)
    /\ \E i \in 1..Len(comparisons) : comparisons[i].moveInfo # {}
    /\ \E i \in 1..Len(comparisons) :
           comparisons[i].changeType # previous.comparisons[i].changeType

----------------------------------------------------------------------------
(* Properties of the page (checked under SpecUi) *)

\* C16: compareVersions() is never started while the selected baseline
\* version equals the selected compare version, whatever platform, baseline,
\* compare, default-selection and URL-parameter events were handled.
CompareNeverStartedOnSameVersion == ~app.startedOnSame

\* The versions of the selected platform, oldest first.
SelectedPlatformVersions ==
    VersionsOf(analysisIndex, ValueOf(app.platformSelect))

\* C17: once an event has been handled, every option of the compare
\* dropdown lies strictly after the selected baseline in the version list of
\* the selected platform, and the baseline dropdown holds all versions
\* except the last.
CompareOptionsAreNewerThanBaseline ==
    (app.indexState = "loaded" /\ ValueOf(app.platformSelect) # <<>>) =>
        /\ app.version1Select.options =
               SubSeq(SelectedPlatformVersions, 1,
                      Len(SelectedPlatformVersions) - 1)
        /\ ValueOf(app.version1Select) # <<>> =>
               \A i \in 1..Len(app.version2Select.options) :
                   IndexOf(SelectedPlatformVersions,
                           app.version2Select.options[i])
                       > IndexOf(SelectedPlatformVersions,
                                 ValueOf(app.version1Select))

\* The start-up of the page is over: the index has loaded, no timer is
\* pending, every CSV load has arrived, and the user did nothing.
StartUpCompleted ==
    /\ app.indexState = "loaded"
    /\ app.timers = <<>>
    /\ app.requests = <<>>
    /\ app.userEvents = 0
    /\ app.failures = 0

\* The query string names a platform of the index and two of its versions,
\* the first one before the second one.
ValidUrlParameters(params) ==
    /\ MapHas(analysisIndex, params.platform)
    /\ LET versions == VersionsOf(analysisIndex, params.platform)
       IN  /\ IndexOf(versions, params.fromVersion) > 0
           /\ IndexOf(versions, params.toVersion)
                  > IndexOf(versions, params.fromVersion)

\* C18: opened with platform=P, from=A, to=B, P in the index and A before B
\* in P's versions, the page ends its start-up with P, A and B selected and
\* with currentComparison the comparison of (P, A, B), in whatever order
\* the CSV loads arrived.
UrlParametersSeedComparison ==
    \A params \in app.location :
        (StartUpCompleted /\ ValidUrlParameters(params)) =>
            /\ ValueOf(app.platformSelect) = params.platform
            /\ ValueOf(app.version1Select) = params.fromVersion
            /\ ValueOf(app.version2Select) = params.toVersion
            /\ \E current \in app.currentComparison :
                   /\ current.platform = params.platform
                   /\ current.version1 = params.fromVersion
                   /\ current.version2 = params.toVersion

\* C19: a failing fetch leaves the CSV cache as it was, and compareVersions
\* reports an error status for its call without replacing the stored
\* currentComparison or touching any other call in flight.
FetchFailureIsLocal ==
    [][app'.failures # app.failures =>
          /\ csvCache' = csvCache
          /\ app'.currentComparison = app.currentComparison
          /\ \E i \in 1..Len(app.requests) :
                 /\ ~app.requests[i].rejected => app'.status = "error-data"
                 /\ IF Len(app'.requests) = Len(app.requests)
                    THEN /\ app'.requests[i].rejected
                         /\ WithoutRequest(app'.requests, i)
                                = WithoutRequest(app.requests, i)
                    ELSE app'.requests = WithoutRequest(app.requests, i)]_vars

\* A fetch failed while a comparison was stored, files were cached and
\* another call was waiting for its files.
FailedBesideAnotherCallSeen ==
    /\ app.failures > 0
    /\ app.status = "error-data"
    /\ app.currentComparison # {}
    /\ csvCache # <<>>
    /\ \E i \in 1..Len(app.requests) : ~app.requests[i].rejected

\* The first platform of the index and its versions, oldest first.
FirstPlatform == MapKeys(analysisIndex)[1]

FirstPlatformVersions == VersionsOf(analysisIndex, FirstPlatform)

\* C23: the index loaded, no URL parameters and at least two versions on
\* the first platform: when the start-up timer has fired and the CSV loads
\* are complete, the baseline is the second-to-last version, the compare
\* version is the last one, and currentComparison is the comparison of that
\* pair on the first platform.
SmartDefaultsOnLoad ==
    (/\ StartUpCompleted
     /\ app.location = {}
     /\ Len(FirstPlatformVersions) >= 2) =>
        LET versions == FirstPlatformVersions
            baseline == versions[Len(versions) - 1]
            latest   == versions[Len(versions)]
        IN  /\ ValueOf(app.version1Select) = baseline
            /\ ValueOf(app.version2Select) = latest
            /\ \E current \in app.currentComparison :
                   /\ SelectionOf(current)
                          = [platform |-> FirstPlatform,
                             version1 |-> baseline, version2 |-> latest]
                   /\ current.data1
                          = parseCSV(server[CsvUrl(FirstPlatform, baseline)])
                   /\ current.data2
                          = parseCSV(server[CsvUrl(FirstPlatform, latest)])
                   /\ current.comparisons # <<>>

\* The start-up without URL parameters is over and a comparison is stored.
DefaultComparisonSeen ==
    /\ StartUpCompleted
    /\ app.location = {}
    /\ Len(FirstPlatformVersions) >= 2
    /\ app.currentComparison # {}
    /\ app.status = "complete"

\* The loads in flight: load s of call i.
LoadsInFlight ==
    {l \in (1..Len(app.requests)) \X {1, 2} :
        l[2] \in app.requests[l[1]].pending}

\* C24: the cache is never written by two racing requests: no URL has two
\* fetches in flight, and a URL that is cached is answered from the cache
\* and has no fetch in flight, so that each URL is fetched once and written
\* to the cache once.
OneFetchAndOneCacheWritePerUrl ==
    /\ \A k, l \in LoadsInFlight :
           k # l => RequestUrl(app.requests[k[1]], k[2])
                        # RequestUrl(app.requests[l[1]], l[2])
    /\ \A l \in LoadsInFlight :
           ~MapHas(csvCache, RequestUrl(app.requests[l[1]], l[2]))

\* C25: there is no cancellation, so the comparison held when nothing is in
\* flight any more is that of the call whose loads completed last, whatever
\* the selects show.
QuiescentComparisonIsLastCompleted ==
    (app.requests = <<>> /\ app.timers = <<>>) =>
        {SelectionOf(c) : c \in app.currentComparison} = app.lastCompleted

\* C25, amended: the comparison held is that of the call whose loads
\* completed last, whatever the selects show, unless the results were
\* cleared after that call completed.
ComparisonIsLastCompletedOrCleared ==
    \/ app.currentComparison = {}
    \/ {SelectionOf(c) : c \in app.currentComparison} = app.lastCompleted

\* Nothing is in flight and the comparison held is that of a superseded
\* call: the selects show other versions.
SupersededComparisonHeldSeen ==
    /\ app.requests = <<>> /\ app.timers = <<>>
    /\ app.currentComparison # {}
    /\ \A c \in app.currentComparison :
           /\ SelectionOf(c) # CurrentSelection(app)
           /\ {SelectionOf(c)} = app.lastCompleted
    /\ ValueOf(app.version1Select) # <<>>
    /\ ValueOf(app.version2Select) # <<>>

----------------------------------------------------------------------------
(* Properties of the summary (checked under SpecSum) *)

\* The sum of the differences of the first n entries.
RECURSIVE SumOfDifferences(_, _)
SumOfDifferences(list, n) ==
    IF n = 0 THEN 0
    ELSE SumOfDifferences(list, n - 1) + list[n].difference

\* The entries of a change type.
EntriesOfType(list, changeType) ==
    {list[i] : i \in {j \in 1..Len(list) : list[j].changeType = changeType}}

\* C21: generateSummary returns totalFiles equal to the number of entries
\* and to unchanged + increased + decreased, totalSizeChange equal to the sum
\* of all differences, largestIncrease an "increased" entry of maximum
\* difference and largestDecrease a "decreased" entry of minimum difference,
\* each null when there is no such entry.
SummaryAggregatesList ==
    sumDone =>
        /\ summary.totalFiles = Len(sumComparisons)
        /\ summary.totalFiles
               = summary.unchanged + summary.increased + summary.decreased
        /\ summary.totalSizeChange
               = SumOfDifferences(sumComparisons, Len(sumComparisons))
        /\ LET increased == EntriesOfType(sumComparisons, "increased")
           IN  IF increased = {} THEN summary.largestIncrease = {}
               ELSE \E l \in summary.largestIncrease :
                        /\ l \in increased
                        /\ \A e \in increased : e.difference <= l.difference
        /\ LET decreased == EntriesOfType(sumComparisons, "decreased")
           IN  IF decreased = {} THEN summary.largestDecrease = {}
               ELSE \E l \in summary.largestDecrease :
                        /\ l \in decreased
                        /\ \A e \in decreased : l.difference <= e.difference

\* A list was summarised whose second increased entry replaced the first
\* as the largest, beside a decreased entry.
LargerIncreaseReplacedSeen ==
    /\ sumDone
    /\ Len(sumComparisons) = 3
    /\ sumComparisons[1].changeType = "increased"
    /\ sumComparisons[2].changeType = "increased"
    /\ sumComparisons[3].changeType = "decreased"
    /\ summary.largestIncrease = {sumComparisons[2]}
    /\ sumComparisons[1].difference < sumComparisons[2].difference

----------------------------------------------------------------------------
(* Properties of the dashboard (checked under SpecDash)                    *)

\* The versions of the rows cached for the file a chart is drawn from.
DatasetOfChart(containerId) ==
    LET rows == CHOOSE d \in MapGet(dashCache, ChartConfig(containerId).csvFile) :
                    TRUE
    IN  [i \in 1..Len(rows) |-> VersionOfRow(rows[i])]

\* C22: a click on a data point opens the size analyzer with to = the
\* clicked version and from = the version just before it in the dataset of
\* the chart that was clicked; a click on the first version of that dataset
\* opens nothing.
ClickOpensPredecessorInClickedChart ==
    \A click \in dashClick :
        LET dataset == DatasetOfChart(click.containerId)
            index   == IndexOf(dataset, click.point.x)
        IN  IF index > 1
            THEN /\ dashOpened.kind = "window"
                 /\ dashOpened.toVersion = click.point.x
                 /\ dashOpened.fromVersion = dataset[index - 1]
            ELSE dashOpened.kind # "window"

\* A row with data: some platform cell of it is above zero.
RowHasData(row) ==
    \E i \in 1..Len(row) :
        row[i].key # "VERSION" /\ ParsesPositive(row[i].value)

\* The versions with data of a chart's file at or above its minimum version.
VersionsWithData(containerId) ==
    LET rows == CHOOSE d \in MapGet(dashCache, ChartConfig(containerId).csvFile) :
                    TRUE
        Counted(row) ==
            /\ RowHasData(row)
            /\ DashboardCompareVersions(VersionOfRow(row),
                   ChartConfig(containerId).minimumVersion) >= 0
        counted == SelectSeq(rows, Counted)
    IN  [i \in 1..Len(counted) |-> VersionOfRow(counted[i])]

\* C27: when more than 20 versions with data are at or above the minimum
\* version of a chart, its default start version v has exactly 20 of them at
\* or above it; with 20 or fewer, v is the minimum version.
DefaultStartShowsLastTwenty ==
    dashStatus = "loaded" =>
        \A containerId \in ChartIds :
            LET versions == VersionsWithData(containerId)
                start    == dashConfigs[containerId].defaultVersion
                shown    == {i \in 1..Len(versions) :
                                DashboardCompareVersions(versions[i], start)
                                    >= 0}
            IN  IF Len(versions) > DefaultVersionCount
                THEN Cardinality(shown) = DefaultVersionCount
                ELSE start = ChartConfig(containerId).minimumVersion

----------------------------------------------------------------------------
(* Properties of the histogram (checked under SpecThr)                     *)

\* The entries of the list classified as increased or decreased.
ClassifiedAsChanged ==
    {i \in 1..Len(comparisons) :
        comparisons[i].changeType \in {"increased", "decreased"}}

\* C29: the entries the histogram keeps under the threshold t are exactly
\* the entries whose changeType computed with t is "increased" or
\* "decreased", and its two counts are the numbers of those entries with a
\* difference above and below zero.
HistogramAgreesWithClassification ==
    \A chart \in histogram :
        /\ changeThreshold = thresholdSlider.value
        /\ Len(chart.fullFileNames) = Cardinality(ClassifiedAsChanged)
        /\ {chart.fullFileNames[i] : i \in 1..Len(chart.fullFileNames)}
               = {comparisons[i].compileUnit : i \in ClassifiedAsChanged}
        /\ chart.increasedCount =
               Cardinality({i \in ClassifiedAsChanged :
                               comparisons[i].difference > 0})
        /\ chart.decreasedCount =
               Cardinality({i \in ClassifiedAsChanged :
                               comparisons[i].difference < 0})

----------------------------------------------------------------------------
(* Properties of the slider's range (checked under SpecRng)                *)

\* C30: calculateThresholdRange returns min <= median <= max, so the value
\* updateThresholdSlider gives the slider lies inside [slider.min,
\* slider.max], also for lists with more than 30 non-zero differences.
ThresholdRangeWellFormed ==
    rngDone =>
        /\ rngRange.min <= rngRange.median
        /\ rngRange.median <= rngRange.max
        /\ rngSlider.min <= rngSlider.value
        /\ rngSlider.value <= rngSlider.max

----------------------------------------------------------------------------
(* Properties of the version range (checked under SpecTl)                  *)

\* The versions array of the platform the timeline is asked for.
TimelineAllVersions ==
    LET entries == CHOOSE x \in MapGet(analysisIndex, tlArgs.platform) : TRUE
    IN  [i \in 1..Len(entries) |-> entries[i].version]

\* C26: getVersionsInRange(all, start, end) returns exactly the versions v
\* of all with start <= v <= end under compareVersions, in ascending
\* version order, whatever the order of all.
VersionsInRangeInclusiveAscending ==
    tlPc \in {"loading", "returned"} =>
        LET all == TimelineAllVersions
            inRange == {i \in 1..Len(all) :
                           /\ compareVersions(tlArgs.startVersion, all[i]) <= 0
                           /\ compareVersions(all[i], tlArgs.endVersion) <= 0}
        IN  /\ Len(tlVersionsInRange) = Cardinality(inRange)
            /\ {tlVersionsInRange[i] : i \in 1..Len(tlVersionsInRange)}
                   = {all[i] : i \in inRange}
            /\ \A i, j \in 1..Len(tlVersionsInRange) :
                   i < j => compareVersions(tlVersionsInRange[i],
                                            tlVersionsInRange[j]) < 0

\* A descending array of three versions from which the range 1.2 .. 1.10 was
\* taken: both bounds are returned, in ascending order.
DescendingArrayRangeSeen ==
    /\ tlPc \in {"loading", "returned"}
    /\ TimelineAllVersions
           = <<<<"2", ".", "0">>, <<"1", ".", "1", "0">>, <<"1", ".", "2">>>>
    /\ tlArgs.startVersion = <<"1", ".", "2">>
    /\ tlArgs.endVersion = <<"1", ".", "1", "0">>
    /\ tlVersionsInRange = <<<<"1", ".", "2">>, <<"1", ".", "1", "0">>>>

----------------------------------------------------------------------------
(* Conservation of size by the comparator (checked under SpecCmp)          *)

\* The rows of a snapshot have distinct normalized keys.
DistinctNormalizedKeys(data) ==
    \A i, j \in 1..Len(data) :
        i # j => normalizeFilePath(data[i][FilenameColumn])
                     # normalizeFilePath(data[j][FilenameColumn])

\* The sum of the metric over the first n rows of a snapshot.
RECURSIVE SumOfMetric(_, _)
SumOfMetric(data, n) ==
    IF n = 0 THEN 0
    ELSE SumOfMetric(data, n - 1)
             + OrZero(parseInt(Cell(data[n], Metric)))

\* C28: for two snapshots whose rows have distinct normalized keys, the
\* summary's totalSizeChange (the sum of difference over the output) is the
\* sum of the metric over the after snapshot minus the sum over the before
\* snapshot, whether or not moves were detected.
SizeConservedByReconciliation ==
    (/\ cmpPc # "loaded"
     /\ DistinctNormalizedKeys(data1)
     /\ DistinctNormalizedKeys(data2))
        => generateSummary(comparisons).totalSizeChange
               = SumOfMetric(data2, Len(data2)) - SumOfMetric(data1, Len(data1))

====
